---- MODULE Spec2Model ----
(***************************************************************************)
(* A model of the ReAct agent of this repository: the message tree of      *)
(* ReactAgent (src/agent.py), the textual call protocol of ResponseParser  *)
(* (src/response_parser.py), the stop-token rule of OpenAIModel.generate   *)
(* (src/llm.py) and the step loop ReactAgent.run.                          *)
(*                                                                         *)
(* Texts are sequences of tokens.  The three protocol markers, the newline *)
(* and the blank are one token each; every other token is a word without   *)
(* white space and without marker text.  Python's None is NoneId.          *)
(***************************************************************************)
EXTENDS Integers, Sequences, FiniteSets, TLC

\* ------------------------------------------------------------------------
\* Bounds of the model
\* ------------------------------------------------------------------------
MaxBudget == 3
MaxProse == 2
MaxValue == 3
MaxApiCalls == 2
MaxOver == 2
MaxRecoverySteps == 5

\* ------------------------------------------------------------------------
\* Texts
\* ------------------------------------------------------------------------
BEGIN_CALL == "----BEGIN_FUNCTION_CALL----"
END_CALL == "----END_FUNCTION_CALL----"
ARG_SEP == "----ARG----"
NL == "\n"
SP == " "
Whitespace == {NL, SP}
NoneId == -1
Min(a, b) == IF a < b THEN a ELSE b

\* s[lo..hi) with 0-based bounds, as the Python slice s[lo:hi]
Slice(s, lo, hi) == SubSeq(s, lo + 1, hi)

\* str.rfind(tok, lo, hi): the last 0-based index in [lo, hi) holding tok, or -1
RFindFirst(s, tok, lo, hi) ==
    LET hits == {i \in lo..(hi - 1) : s[i + 1] = tok}
    IN  IF hits = {} THEN -1 ELSE CHOOSE i \in hits : \A j \in hits : i <= j

RFindUnbounded(s, tok, lo, hi) ==
    LET hits == {i \in lo..(Len(s) - 1) : s[i + 1] = tok}
    IN  IF hits = {} THEN -1 ELSE CHOOSE i \in hits : \A j \in hits : j <= i

RFind(s, tok, lo, hi) ==
    LET hits == {i \in lo..(hi - 1) : s[i + 1] = tok}
    IN  IF hits = {} THEN -1 ELSE CHOOSE i \in hits : \A j \in hits : j <= i

\* str.strip(): drop leading and trailing white space
StripKeepLeading(s) ==
    LET keep == {i \in 1..Len(s) : s[i] \notin Whitespace}
    IN  IF keep = {} THEN <<>>
        ELSE SubSeq(s, 1, CHOOSE i \in keep : \A j \in keep : j <= i)

Strip(s) ==
    LET keep == {i \in 1..Len(s) : s[i] \notin Whitespace}
    IN  IF keep = {} THEN <<>>
        ELSE SubSeq(s, CHOOSE i \in keep : \A j \in keep : i <= j,
                       CHOOSE i \in keep : \A j \in keep : j <= i)

\* str.split(sep): the pieces between the occurrences of sep (always >= 1 piece)
RECURSIVE Split(_, _)
Split(s, sep) ==
    LET hits == {i \in 1..Len(s) : s[i] = sep}
    IN  IF hits = {} THEN <<s>>
        ELSE LET i == CHOOSE k \in hits : \A j \in hits : k <= j
             IN  <<SubSeq(s, 1, i - 1)>> \o Split(SubSeq(s, i + 1, Len(s)), sep)

\* str.split('\n', 1): at most two pieces, cut at the first newline
SplitFirstLine(s) ==
    LET hits == {i \in 1..Len(s) : s[i] = NL}
    IN  IF hits = {} THEN <<s>>
        ELSE LET i == CHOOSE k \in hits : \A j \in hits : k <= j
             IN  <<SubSeq(s, 1, i - 1), SubSeq(s, i + 1, Len(s))>>

\* dict[key] = value on an insertion-ordered dict held as a sequence of pairs
DictSetAppend(d, key, value) == Append(d, <<key, value>>)

DictSet(d, key, value) ==
    IF \E i \in 1..Len(d) : d[i][1] = key
    THEN [i \in 1..Len(d) |-> IF d[i][1] = key THEN <<key, value>> ELSE d[i]]
    ELSE Append(d, <<key, value>>)

DictKeys(d) == {d[i][1] : i \in 1..Len(d)}

DictGet(d, key) == d[CHOOSE i \in 1..Len(d) : d[i][1] = key][2]

\* ------------------------------------------------------------------------
\* ResponseParser.parse
\* ------------------------------------------------------------------------
ParseFailure(msg) ==
    [ok |-> FALSE, error |-> msg, thought |-> <<>>, name |-> <<>>, arguments |-> <<>>]

\* the loop over parts[1:]: the arguments read so far, or the failing index
RECURSIVE ParseArguments(_, _, _)
ParseArguments(parts, i, arguments) ==
    IF i > Len(parts) THEN [ok |-> TRUE, arguments |-> arguments, bad |-> 0]
    ELSE LET arg_lines == SplitFirstLine(Strip(parts[i]))
         IN  IF Len(arg_lines) < 1 \/ Strip(arg_lines[1]) = <<>>
             THEN [ok |-> FALSE, arguments |-> arguments, bad |-> i - 1]
             ELSE LET arg_name == Strip(arg_lines[1])
                      arg_value == IF Len(arg_lines) > 1 THEN Strip(arg_lines[2]) ELSE <<>>
                  IN  ParseArguments(parts, i + 1, DictSet(arguments, arg_name, arg_value))

Parse(text) ==
    LET end_idx == RFind(text, END_CALL, 0, Len(text))
    IN  IF end_idx = -1 THEN ParseFailure("No END_CALL marker found in response")
        ELSE
        LET begin_idx == RFind(text, BEGIN_CALL, 0, end_idx)
        IN  IF begin_idx = -1 THEN ParseFailure("No BEGIN_CALL marker found before END_CALL")
            ELSE
            LET thought == Strip(Slice(text, 0, begin_idx))
                call_content == Strip(Slice(text, begin_idx + 1, end_idx))
                parts == Split(call_content, ARG_SEP)
                function_name == Strip(parts[1])
            IN  IF Len(parts) < 1 THEN ParseFailure("No function name found in function call")
                ELSE IF function_name = <<>> THEN ParseFailure("Function name is empty")
                ELSE LET args == ParseArguments(parts, 2, <<>>)
                     IN  IF ~args.ok
                         THEN ParseFailure("Argument is malformed: missing argument name")
                         ELSE [ok |-> TRUE, error |-> "", thought |-> thought,
                               name |-> function_name, arguments |-> args.arguments]

\* ------------------------------------------------------------------------
\* ResponseParser.response_format: the template a call is written in
\* ------------------------------------------------------------------------
RECURSIVE FormatArguments(_)
FormatArguments(args) ==
    IF args = <<>> THEN <<>>
    ELSE <<ARG_SEP, NL>> \o args[1][1] \o <<NL>> \o args[1][2] \o <<NL>>
         \o FormatArguments(Tail(args))

ResponseFormat(thought, name, args) ==
    <<NL>> \o thought \o <<NL, BEGIN_CALL, NL>> \o name \o <<NL>>
    \o FormatArguments(args) \o <<END_CALL, NL>>

\* ------------------------------------------------------------------------
\* OpenAIModel.generate: the stop token is appended to a non-empty text
\* that does not end with it
\* ------------------------------------------------------------------------
EndsWith(text, tok) == Len(text) > 0 /\ text[Len(text)] = tok

GenerateNoStop(text, stop_token) == text

Generate(text, stop_token) ==
    IF text # <<>> /\ ~EndsWith(text, stop_token) THEN Append(text, stop_token) ELSE text

\* ------------------------------------------------------------------------
\* State
\* ------------------------------------------------------------------------
VARIABLES
    id_to_message,            \* ReactAgent.id_to_message: the nodes, node id i at index i + 1
    root_message_id,          \* ReactAgent.root_message_id
    current_message_id,       \* ReactAgent.current_message_id
    last_printed_message_id,  \* ReactAgent.last_printed_message_id
    function_map,             \* ReactAgent.function_map: the registered names, in insertion order
    pc,                       \* where run() is: "new", "running", "returned"
    step,                     \* the loop variable of run()
    max_steps,                \* the local max_steps of run(), after the clamp
    requested,                \* the max_steps argument run() was called with
    result,                   \* what run() returned
    llm_calls,                \* the number of llm.generate calls made by run()
    trajectory,               \* the node ids written to the exec_trajectories file, in order
    has_changes,              \* the sandbox: git diff is non-empty
    syntax_ok,                \* the sandbox: no modified file has a syntax error
    api_calls,                \* the number of direct calls of the agent's methods
    last,                     \* what the last operation did
    p_call,                   \* parser harness: the call that is written out
    p_text,                   \* parser harness: the text given to parse
    p_result,                 \* parser harness: what parse returned
    e_call,                   \* sandbox harness: the call of a tool or of process_instance
    e_result                  \* sandbox harness: what the call returned and left behind

agent_vars == <<id_to_message, root_message_id, current_message_id, last_printed_message_id,
                function_map, pc, step, max_steps, requested, result, llm_calls, trajectory,
                has_changes, syntax_ok, api_calls, last>>
parser_vars == <<p_call, p_text, p_result>>
env_vars == <<e_call, e_result>>
vars == <<agent_vars, parser_vars, env_vars>>

\* ------------------------------------------------------------------------
\* The message tree
\* ------------------------------------------------------------------------
SYSTEM_PROMPT == <<"You are an elite ReAct agent">>
MAX_STEPS_CAP == 100

NumMessages(S) == Len(S.msgs)
Message(S, id) == S.msgs[id + 1]

\* ReactAgent.add_message on the store S = [msgs, cur, root]
AddMessageChain(S, role, content) ==
    LET unique_id == Len(S.msgs)
        last_id == unique_id - 1
        message == [role |-> role, content |-> content, unique_id |-> unique_id,
                    parent |-> IF last_id # -1 THEN last_id ELSE NoneId,
                    children |-> <<>>]
        linked == IF last_id # -1
                  THEN [S.msgs EXCEPT ![last_id + 1].children = Append(@, unique_id)]
                  ELSE S.msgs
    IN  [msgs |-> Append(linked, message),
         cur |-> unique_id,
         root |-> IF S.root = -1 THEN unique_id ELSE S.root]

AddMessage(S, role, content) ==
    LET unique_id == Len(S.msgs)
        message == [role |-> role, content |-> content, unique_id |-> unique_id,
                    parent |-> IF S.cur # -1 THEN S.cur ELSE NoneId,
                    children |-> <<>>]
        linked == IF S.cur # -1
                  THEN [S.msgs EXCEPT ![S.cur + 1].children = Append(@, unique_id)]
                  ELSE S.msgs
    IN  [msgs |-> Append(linked, message),
         cur |-> unique_id,
         root |-> IF S.root = -1 THEN unique_id ELSE S.root]

\* ReactAgent.set_message_content, for an id in range
SetMessageContent(S, message_id, content) ==
    [S EXCEPT !.msgs[message_id + 1].content = content]

ValidId(S, id) == ~(id < 0 \/ id >= Len(S.msgs))

\* the walk of ReactAgent.get_context: the ids from the root to id
RECURSIVE PathFrom(_, _)
PathFrom(S, current_id) ==
    IF current_id = NoneId THEN <<>>
    ELSE Append(PathFrom(S, Message(S, current_id).parent), current_id)

RECURSIVE WalkUp(_, _)
WalkUp(S, current_id) ==
    IF current_id = NoneId THEN <<>>
    ELSE <<current_id>> \o WalkUp(S, Message(S, current_id).parent)

GetContextPathUnreversed(S) == WalkUp(S, S.cur)

GetContextPath(S) == PathFrom(S, S.cur)

\* the store after ReactAgent.__init__
EmptyStore == [msgs |-> <<>>, cur |-> -1, root |-> -1]
InitStore ==
    AddMessage(AddMessage(AddMessage(EmptyStore, "system", SYSTEM_PROMPT),
                          "user", <<>>), "instructor", <<>>)
system_message_id == 0
user_message_id == 1
instructions_message_id == 2

Store == [msgs |-> id_to_message, cur |-> current_message_id, root |-> root_message_id]

\* ------------------------------------------------------------------------
\* The tools and the sandbox they act on
\* ------------------------------------------------------------------------
FINISH == <<"finish">>
RUN_BASH_CMD == <<"run_bash_cmd">>
BACKTRACK == <<"add_instructions_and_backtrack">>

\* the declared parameters of each tool (none has a default)
Parameters(tool) ==
    IF tool = FINISH THEN <<(<<"result">>)>>
    ELSE IF tool = RUN_BASH_CMD THEN <<(<<"command">>)>>
    ELSE <<(<<"instructions">>), (<<"at_message_id">>)>>

SeqToSet(q) == {q[i] : i \in 1..Len(q)}

\* the declared parameters that arguments lacks, in declaration order
RECURSIVE MissingNames(_, _, _)
MissingNames(params, arguments, i) ==
    IF i > Len(params) THEN <<>>
    ELSE (IF params[i] \in DictKeys(arguments) THEN <<>> ELSE params[i] \o <<SP>>)
         \o MissingNames(params, arguments, i + 1)

\* Python's binding of func(**arguments): the TypeError it raises, or <<>>
BindErrorIgnoreExtra(tool, arguments) ==
    LET params == Parameters(tool)
        missing == {i \in 1..Len(params) : params[i] \notin DictKeys(arguments)}
    IN  IF missing # {}
        THEN <<"missing required positional argument: ">>
             \o params[CHOOSE i \in missing : \A j \in missing : i <= j]
        ELSE <<>>

BindError(tool, arguments) ==
    LET params == Parameters(tool)
        extra == {i \in 1..Len(arguments) : arguments[i][1] \notin SeqToSet(params)}
        missing == {i \in 1..Len(params) : params[i] \notin DictKeys(arguments)}
    IN  IF extra # {}
        THEN <<"got an unexpected keyword argument: ">>
             \o arguments[CHOOSE i \in extra : \A j \in extra : i <= j][1]
        ELSE IF missing # {}
        THEN <<"missing required positional arguments: ">>
             \o MissingNames(params, arguments, 1)
        ELSE <<>>

\* what env.execute does with a command: its output, whether it raises, and
\* what it leaves in the working tree
CMD_EDIT == <<"edit">>
CMD_BREAK == <<"break">>
CMD_SLEEP == <<"sleep">>
CMD_FAIL == <<"false">>

\* the exit code env.execute reports for a command that ends in time
ExitCode(command) == IF command = CMD_FAIL THEN 1 ELSE 0

\* env.execute raises TimeoutExpired or TimeoutError for the command
TimesOut(command) == command = CMD_SLEEP

\* run_bash_cmd raises for a timeout only; the output of a command that ends
\* is returned whatever its exit code
Execute(command, changes, syntax) ==
    IF command = CMD_EDIT
    THEN [raises |-> FALSE, output |-> <<"edited">>, changes |-> TRUE, syntax |-> syntax]
    ELSE IF command = CMD_BREAK
    THEN [raises |-> FALSE, output |-> <<"edited">>, changes |-> TRUE, syntax |-> FALSE]
    ELSE IF TimesOut(command)
    THEN [raises |-> TRUE, output |-> <<"TimeoutError">>, changes |-> changes, syntax |-> syntax]
    ELSE IF ExitCode(command) # 0
    THEN [raises |-> FALSE, output |-> <<"failed">>, changes |-> changes, syntax |-> syntax]
    ELSE [raises |-> FALSE, output |-> <<"ok">>, changes |-> changes, syntax |-> syntax]

RECURSIVE Flatten(_)
Flatten(q) == IF q = <<>> THEN <<>> ELSE q[1] \o <<SP>> \o Flatten(Tail(q))

NotFoundMessageNoList(function_name, keys) ==
    <<"Error: Function '">> \o function_name \o <<"' not found.">>

NotFoundMessage(function_name, keys) ==
    <<"Error: Function '">> \o function_name
    \o <<"' not found. Available functions: ">> \o Flatten(keys)
CallingMessage(function_name, e) ==
    <<"Error calling ">> \o function_name \o <<": ">> \o e
ExecutingMessage(function_name, e) ==
    <<"Error executing ">> \o function_name \o <<": ">> \o e
ParsingMessage(e) == <<"Error parsing function call: ", e>>
UnexpectedMessage(n, e) == <<"Unexpected error in step ", ToString(n), ": ">> \o e
ExhaustedMessage(n) ==
    <<"Agent reached maximum steps (", ToString(n), ") without completing the task.">>

ErrorPrefixes == {"Error: Function '", "Error calling ", "Error executing ",
                  "Error parsing function call: ", "Unexpected error in step "}
IsErrorText(content) == content # <<>> /\ content[1] \in ErrorPrefixes

\* ------------------------------------------------------------------------
\* One iteration of the loop of ReactAgent.run, from the try to the end of
\* the body.  backend is what the backend does with the context: it raises,
\* or it returns a text.  The value is the store, the sandbox and the return
\* value (if any) the iteration leaves.
\* ------------------------------------------------------------------------
Outcome(S, kind, returned, value, tool_ran, changes, syntax) ==
    [store |-> S, kind |-> kind, returned |-> returned, value |-> value,
     tool_ran |-> tool_ran, changes |-> changes, syntax |-> syntax]

\* func(**arguments) and what follows it, for a registered function_name
DispatchSilentError(S, function_name, arguments, changes, syntax) ==
    LET e == BindError(function_name, arguments)
    IN  IF e # <<>>
        THEN Outcome(S, "type_error", FALSE, <<>>, FALSE, changes, syntax)
        ELSE IF function_name = FINISH
        THEN Outcome(S, "finish", TRUE, DictGet(arguments, <<"result">>), TRUE,
                     changes, syntax)
        ELSE LET x == Execute(DictGet(arguments, <<"command">>), changes, syntax)
             IN  Outcome(AddMessage(S, "tool", x.output),
                         "result", FALSE, <<>>, TRUE, x.changes, x.syntax)

Dispatch(S, function_name, arguments, changes, syntax) ==
    LET e == BindError(function_name, arguments)
    IN  IF e # <<>>
        THEN \* TypeError raised by the call itself
             Outcome(AddMessage(S, "tool", CallingMessage(function_name, e)),
                     "type_error", FALSE, <<>>, FALSE, changes, syntax)
        ELSE IF function_name = FINISH
        THEN \* finish returns its argument and run returns it
             Outcome(S, "finish", TRUE, DictGet(arguments, <<"result">>), TRUE,
                     changes, syntax)
        ELSE IF function_name = RUN_BASH_CMD
        THEN LET x == Execute(DictGet(arguments, <<"command">>), changes, syntax)
             IN  IF x.raises
                 THEN Outcome(AddMessage(S, "tool", ExecutingMessage(function_name, x.output)),
                              "exec_error", FALSE, <<>>, TRUE, x.changes, x.syntax)
                 ELSE Outcome(AddMessage(S, "tool", x.output),
                              "result", FALSE, <<>>, TRUE, x.changes, x.syntax)
        ELSE \* add_instructions_and_backtrack with the decoded (string) arguments:
             \* the instructor node is rewritten, then `at_message_id < 0`
             \* compares a str with an int and raises TypeError
             LET S1 == SetMessageContent(S, instructions_message_id,
                                         DictGet(arguments, <<"instructions">>))
             IN  Outcome(AddMessage(S1, "tool",
                                    CallingMessage(function_name,
                                        <<"'<' not supported between instances of 'str' and 'int'">>)),
                         "type_error", FALSE, <<>>, TRUE, changes, syntax)

StepBodyRaising(S, fmap, n, backend, changes, syntax) ==
    IF backend.raises
    THEN Outcome(S, "raised", TRUE, <<>>, FALSE, changes, syntax)
    ELSE LET response == Generate(backend.text, END_CALL)
             S1 == AddMessage(S, "assistant", response)
             parsed == Parse(response)
         IN  IF ~parsed.ok
             THEN Outcome(S1, "raised", TRUE, <<>>, FALSE, changes, syntax)
             ELSE IF parsed.name \notin SeqToSet(fmap)
             THEN Outcome(AddMessage(S1, "tool", NotFoundMessage(parsed.name, fmap)),
                          "not_found", FALSE, <<>>, FALSE, changes, syntax)
             ELSE Dispatch(S1, parsed.name, parsed.arguments, changes, syntax)

StepBodyParseFirst(S, fmap, n, backend, changes, syntax) ==
    IF backend.raises
    THEN Outcome(AddMessage(S, "tool", UnexpectedMessage(n, backend.text)),
                 "model_error", FALSE, <<>>, FALSE, changes, syntax)
    ELSE LET response == Generate(backend.text, END_CALL)
             S1 == AddMessage(S, "assistant", response)
             parsed == Parse(response)
         IN  IF ~parsed.ok
             THEN Outcome(AddMessage(S, "tool", ParsingMessage(parsed.error)),
                          "parse_error", FALSE, <<>>, FALSE, changes, syntax)
             ELSE IF parsed.name \notin SeqToSet(fmap)
             THEN Outcome(AddMessage(S1, "tool", NotFoundMessage(parsed.name, fmap)),
                          "not_found", FALSE, <<>>, FALSE, changes, syntax)
             ELSE Dispatch(S1, parsed.name, parsed.arguments, changes, syntax)

StepBodyDropModelError(S, fmap, n, backend, changes, syntax) ==
    IF backend.raises
    THEN Outcome(S, "model_error", FALSE, <<>>, FALSE, changes, syntax)
    ELSE StepBodyParseFirst(S, fmap, n, backend, changes, syntax)

StepBody(S, fmap, n, backend, changes, syntax) ==
    IF backend.raises
    THEN \* llm.generate raised: the outer except
         Outcome(AddMessage(S, "tool", UnexpectedMessage(n, backend.text)),
                 "model_error", FALSE, <<>>, FALSE, changes, syntax)
    ELSE LET response == Generate(backend.text, END_CALL)
             S1 == AddMessage(S, "assistant", response)
             parsed == Parse(response)
         IN  IF ~parsed.ok
             THEN \* ValueError raised by parse
                  Outcome(AddMessage(S1, "tool", ParsingMessage(parsed.error)),
                          "parse_error", FALSE, <<>>, FALSE, changes, syntax)
             ELSE IF parsed.name \notin SeqToSet(fmap)
             THEN Outcome(AddMessage(S1, "tool", NotFoundMessage(parsed.name, fmap)),
                          "not_found", FALSE, <<>>, FALSE, changes, syntax)
             ELSE Dispatch(S1, parsed.name, parsed.arguments, changes, syntax)

\* ------------------------------------------------------------------------
\* What the backend can answer in a step
\* ------------------------------------------------------------------------
Arg(name, value) == <<(<<name>>), value>>
THOUGHT == <<"thinking">>
PAYLOAD == <<"fixed", NL, "bug">>

\* an answer that stops right after the end marker
Answer(thought, name, args) ==
    LET text == ResponseFormat(thought, name, args)
    IN  SubSeq(text, 1, Len(text) - 1)

BackendTexts ==
    { Answer(THOUGHT, FINISH, <<Arg("result", PAYLOAD)>>),
      ResponseFormat(THOUGHT, FINISH, <<Arg("result", PAYLOAD)>>),
      Answer(THOUGHT, FINISH, <<>>),
      Answer(THOUGHT, FINISH, <<Arg("summary", PAYLOAD)>>),
      Answer(THOUGHT, RUN_BASH_CMD, <<Arg("command", CMD_EDIT)>>),
      Answer(THOUGHT, RUN_BASH_CMD, <<Arg("command", CMD_BREAK)>>),
      Answer(THOUGHT, RUN_BASH_CMD, <<Arg("command", CMD_SLEEP)>>),
      Answer(THOUGHT, RUN_BASH_CMD, <<Arg("command", CMD_FAIL)>>),
      Answer(THOUGHT, RUN_BASH_CMD,
             <<Arg("command", CMD_EDIT), Arg("timeout", <<"5">>)>>),
      Answer(THOUGHT, <<"frobnicate">>, <<>>),
      Answer(THOUGHT, BACKTRACK,
             <<Arg("instructions", <<"retry">>), Arg("at_message_id", <<"1">>)>>),
      <<"no", SP, "call">>,
      <<>> }

Backends ==
    {[raises |-> TRUE, text |-> <<"connection error">>]}
    \cup {[raises |-> FALSE, text |-> t] : t \in BackendTexts}

\* the backends of the long runs: the call fails, or the answer calls finish
BudgetBackends ==
    {[raises |-> TRUE, text |-> <<"connection error">>],
     [raises |-> FALSE, text |-> Answer(THOUGHT, FINISH, <<Arg("result", PAYLOAD)>>)]}

\* the backends of the runs with direct calls: the call fails, the answer
\* calls finish, the answer calls an unknown tool
StoreBackends ==
    BudgetBackends
    \cup {[raises |-> FALSE, text |-> Answer(THOUGHT, <<"frobnicate">>, <<>>)]}

Budgets == 0..MaxBudget
LongBudgets == Budgets \cup ((MAX_STEPS_CAP - 1)..(MAX_STEPS_CAP + MaxOver))

Tasks == {<<"fix bug">>}
ApiRoles == {"assistant", "tool"}
ApiContents == {<<"note">>}
ApiInstructions == {<<"go back">>}
ToolSets == {<<RUN_BASH_CMD>>, <<RUN_BASH_CMD, BACKTRACK>>}

NoLast == [op |-> "init", kind |-> "", raised |-> FALSE, created |-> 0, tool_ran |-> FALSE,
           context |-> <<>>, nodes_before |-> 0]

\* ------------------------------------------------------------------------
\* The rendering of the context: ReactAgent.message_id_to_context and
\* ReactAgent.get_context
\* ------------------------------------------------------------------------
FUNCTION_LABEL == "Function: "

\* the name, inspect.signature(tool) and inspect.getdoc(tool)
ToolDescription(tool) ==
    <<FUNCTION_LABEL>> \o tool \o <<"(">> \o Flatten(Parameters(tool)) \o <<")", NL>>
    \o <<"docstring of ">> \o tool \o <<NL>>

\* "\n".join(tool_descriptions)
RECURSIVE JoinDescriptions(_)
JoinDescriptions(tools) ==
    IF tools = <<>> THEN <<>>
    ELSE IF Len(tools) = 1 THEN ToolDescription(tools[1])
    ELSE ToolDescription(tools[1]) \o <<NL>> \o JoinDescriptions(Tail(tools))

Header(message) ==
    <<"----------------------------", NL, "|MESSAGE(role=", message.role, ", id=",
      ToString(message.unique_id), ")|", NL>>

MessageIdToContextSnapshot(S, fmap, message_id) ==
    LET message == Message(S, message_id)
    IN  IF message.role = "system"
        THEN Header(message) \o message.content
             \o <<NL, "--- AVAILABLE TOOLS ---", NL>> \o JoinDescriptions(<<FINISH>>)
             \o <<NL, NL, "--- RESPONSE FORMAT ---", NL>>
             \o ResponseFormat(<<"your_thoughts_here">>, <<"function_name">>,
                               <<(<<(<<"arg1_name">>), (<<"arg1_value">>)>>)>>)
             \o <<NL>>
        ELSE Header(message) \o message.content \o <<NL>>

MessageIdToContext(S, fmap, message_id) ==
    LET message == Message(S, message_id)
    IN  IF message.role = "system"
        THEN Header(message) \o message.content
             \o <<NL, "--- AVAILABLE TOOLS ---", NL>> \o JoinDescriptions(fmap)
             \o <<NL, NL, "--- RESPONSE FORMAT ---", NL>>
             \o ResponseFormat(<<"your_thoughts_here">>, <<"function_name">>,
                               <<(<<(<<"arg1_name">>), (<<"arg1_value">>)>>)>>)
             \o <<NL>>
        ELSE IF message.role = "instructor"
        THEN Header(message)
             \o <<"YOU MUST FOLLOW THE FOLLOWING INSTRUCTIONS AT ANY COST. OTHERWISE, YOU WILL BE DECOMISSIONED.",
                  NL>>
             \o message.content \o <<NL>>
        ELSE Header(message) \o message.content \o <<NL>>

RECURSIVE JoinContext(_, _, _)
JoinContext(S, fmap, path) ==
    IF path = <<>> THEN <<>>
    ELSE MessageIdToContext(S, fmap, path[1]) \o JoinContext(S, fmap, Tail(path))

GetContext(S, fmap) == JoinContext(S, fmap, GetContextPath(S))

\* ------------------------------------------------------------------------
\* Init: the agent after ReactAgent.__init__, in a clean sandbox
\* ------------------------------------------------------------------------
InitAgent ==
    /\ id_to_message = InitStore.msgs
    /\ root_message_id = InitStore.root
    /\ current_message_id = InitStore.cur
    /\ last_printed_message_id = -1
    /\ function_map = <<FINISH>>
    /\ pc = "new"
    /\ step = 0
    /\ max_steps = 0
    /\ requested = 0
    /\ result = <<>>
    /\ llm_calls = 0
    /\ trajectory = <<>>
    /\ has_changes = FALSE
    /\ syntax_ok = TRUE
    /\ api_calls = 0
    /\ last = NoLast

NoParse == [ok |-> FALSE, error |-> "not parsed", thought |-> <<>>, name |-> <<>>,
            arguments |-> <<>>]
NoCall == [kind |-> "none", prose |-> <<>>, name |-> <<>>, args |-> <<>>]

InitParserIdle ==
    /\ p_call = NoCall
    /\ p_text = <<>>
    /\ p_result = NoParse

NoEnvResult == [done |-> FALSE]

InitEnvIdle ==
    /\ e_call = [tool |-> "none"]
    /\ e_result = NoEnvResult

Init == InitAgent /\ InitParserIdle /\ InitEnvIdle

SetStore(S) ==
    /\ id_to_message' = S.msgs
    /\ root_message_id' = S.root
    /\ current_message_id' = S.cur

\* ------------------------------------------------------------------------
\* Direct calls of the agent's methods
\* ------------------------------------------------------------------------
\* ReactAgent.add_functions
Register(fmap, tool) == IF tool \in SeqToSet(fmap) THEN fmap ELSE Append(fmap, tool)

RECURSIVE RegisterAll(_, _)
RegisterAll(fmap, tools) ==
    IF tools = <<>> THEN fmap ELSE RegisterAll(Register(fmap, tools[1]), Tail(tools))

AddFunctions(tools) ==
    /\ pc = "new"
    /\ api_calls < MaxApiCalls
    /\ function_map' = RegisterAll(function_map, tools)
    /\ api_calls' = api_calls + 1
    /\ last' = [NoLast EXCEPT !.op = "add_functions", !.nodes_before = Len(id_to_message)]
    /\ UNCHANGED <<id_to_message, root_message_id, current_message_id,
                   last_printed_message_id, pc, step, max_steps, requested, result,
                   llm_calls, trajectory, has_changes, syntax_ok, parser_vars, env_vars>>

\* ReactAgent.add_message
ApiAddMessage(role, content) ==
    /\ pc \in {"new", "running"}
    /\ api_calls < MaxApiCalls
    /\ SetStore(AddMessage(Store, role, content))
    /\ api_calls' = api_calls + 1
    /\ last' = [NoLast EXCEPT !.op = "add_message", !.created = 1,
                              !.nodes_before = Len(id_to_message)]
    /\ UNCHANGED <<last_printed_message_id, function_map, pc, step, max_steps, requested,
                   result, llm_calls, trajectory, has_changes, syntax_ok, parser_vars, env_vars>>

\* ReactAgent.set_message_content: an id out of range raises and changes nothing
SetContentStoreClamp(S, message_id, content) ==
    LET id == IF message_id < 0 THEN 0 ELSE Min(message_id, Len(S.msgs) - 1)
    IN  SetMessageContent(S, id, content)

SetContentStore(S, message_id, content) ==
    IF message_id < 0 \/ message_id >= Len(S.msgs)
    THEN S
    ELSE SetMessageContent(S, message_id, content)

ApiSetMessageContent(message_id, content) ==
    /\ pc \in {"new", "running"}
    /\ api_calls < MaxApiCalls
    /\ SetStore(SetContentStore(Store, message_id, content))
    /\ api_calls' = api_calls + 1
    /\ last' = [NoLast EXCEPT !.op = "set_content",
                              !.raised = ~ValidId(Store, message_id),
                              !.nodes_before = Len(id_to_message)]
    /\ UNCHANGED <<last_printed_message_id, function_map, pc, step, max_steps, requested,
                   result, llm_calls, trajectory, has_changes, syntax_ok, parser_vars, env_vars>>

\* ReactAgent.add_instructions_and_backtrack, called with an integer id
BacktrackStoreNoLowerCheck(S, instructions, at_message_id) ==
    LET S1 == SetMessageContent(S, instructions_message_id, instructions)
    IN  IF at_message_id >= Len(S1.msgs)
        THEN S1
        ELSE [S1 EXCEPT !.cur = at_message_id]

BacktrackStoreTruncate(S, instructions, at_message_id) ==
    LET S1 == SetMessageContent(S, instructions_message_id, instructions)
    IN  IF at_message_id < 0 \/ at_message_id >= Len(S1.msgs)
        THEN S1
        ELSE [S1 EXCEPT !.cur = at_message_id,
                        !.msgs = SubSeq(S1.msgs, 1,
                                        IF at_message_id < 2 THEN 3 ELSE at_message_id + 1)]

BacktrackStoreOffByOne(S, instructions, at_message_id) ==
    LET S1 == SetMessageContent(S, instructions_message_id, instructions)
    IN  IF at_message_id < 0 \/ at_message_id > Len(S1.msgs)
        THEN S1
        ELSE [S1 EXCEPT !.cur = at_message_id]

BacktrackStore(S, instructions, at_message_id) ==
    LET S1 == SetMessageContent(S, instructions_message_id, instructions)
    IN  IF at_message_id < 0 \/ at_message_id >= Len(S1.msgs)
        THEN S1
        ELSE [S1 EXCEPT !.cur = at_message_id]

AddInstructionsAndBacktrack(instructions, at_message_id) ==
    /\ pc \in {"new", "running"}
    /\ api_calls < MaxApiCalls
    /\ SetStore(BacktrackStore(Store, instructions, at_message_id))
    /\ api_calls' = api_calls + 1
    /\ last' = [NoLast EXCEPT !.op = "backtrack",
                              !.raised = ~ValidId(Store, at_message_id),
                              !.nodes_before = Len(id_to_message)]
    /\ UNCHANGED <<last_printed_message_id, function_map, pc, step, max_steps, requested,
                   result, llm_calls, trajectory, has_changes, syntax_ok, parser_vars, env_vars>>

\* ------------------------------------------------------------------------
\* ReactAgent.run
\* ------------------------------------------------------------------------
ClampNone(m) == m

Clamp(m) == Min(m, MAX_STEPS_CAP)

\* the call of run and what precedes the loop
Run(task, m) ==
    /\ pc = "new"
    /\ requested' = m
    /\ max_steps' = Clamp(m)
    /\ SetStore(SetMessageContent(Store, user_message_id, task))
    /\ pc' = "running"
    /\ step' = 0
    /\ last' = [NoLast EXCEPT !.op = "run", !.nodes_before = Len(id_to_message)]
    /\ UNCHANGED <<last_printed_message_id, function_map, result, llm_calls, trajectory,
                   has_changes, syntax_ok, api_calls, parser_vars, env_vars>>

\* the ids written to the trajectory file at the top of an iteration
RECURSIVE Range(_, _)
Range(lo, hi) == IF lo >= hi THEN <<>> ELSE <<lo>> \o Range(lo + 1, hi)

Emitted(printed, cur) == IF cur # printed THEN Range(printed + 1, cur + 1) ELSE <<>>

\* one iteration of the loop
Step(backend) ==
    /\ pc = "running"
    /\ step < max_steps
    /\ trajectory' = trajectory \o Emitted(last_printed_message_id, current_message_id)
    /\ last_printed_message_id' = current_message_id
    /\ LET o == StepBody(Store, function_map, step, backend, has_changes, syntax_ok)
       IN  /\ SetStore(o.store)
           /\ has_changes' = o.changes
           /\ syntax_ok' = o.syntax
           /\ pc' = IF o.kind = "raised" THEN "raised"
                    ELSE IF o.returned THEN "returned" ELSE "running"
           /\ result' = IF o.returned THEN o.value ELSE result
           /\ last' = [op |-> "step", kind |-> o.kind, raised |-> o.kind = "raised",
                       created |-> Len(o.store.msgs) - Len(id_to_message),
                       tool_ran |-> o.tool_ran,
                       context |-> GetContextPath(Store),
                       nodes_before |-> Len(id_to_message)]
    /\ llm_calls' = llm_calls + 1
    /\ step' = step + 1
    /\ UNCHANGED <<function_map, max_steps, requested, api_calls, parser_vars, env_vars>>

\* the loop is over: the return after it
Exhausted ==
    /\ pc = "running"
    /\ step >= max_steps
    /\ pc' = "returned"
    /\ result' = ExhaustedMessage(max_steps)
    /\ last' = [NoLast EXCEPT !.op = "exhausted", !.nodes_before = Len(id_to_message)]
    /\ UNCHANGED <<id_to_message, root_message_id, current_message_id,
                   last_printed_message_id, function_map, step, max_steps, requested,
                   llm_calls, trajectory, has_changes, syntax_ok, api_calls, parser_vars, env_vars>>

Next ==
    \/ \E tools \in ToolSets : AddFunctions(tools)
    \/ \E task \in Tasks, m \in Budgets : Run(task, m)
    \/ \E backend \in Backends : Step(backend)
    \/ Exhausted

Spec == Init /\ [][Next]_vars

\* the loop of run goes on by itself: an iteration whose calls return or
\* raise is followed by the next iteration or by the return after the loop.
\* The model call raises or returns; the answer does not parse, calls finish
\* with or without its argument, or calls a tool that returns or raises
LiveBackends ==
    {[raises |-> TRUE, text |-> <<"connection error">>],
     [raises |-> FALSE, text |-> <<"no", SP, "call">>],
     [raises |-> FALSE, text |-> Answer(THOUGHT, FINISH, <<Arg("result", PAYLOAD)>>)],
     [raises |-> FALSE, text |-> Answer(THOUGHT, FINISH, <<>>)],
     [raises |-> FALSE, text |-> Answer(THOUGHT, RUN_BASH_CMD, <<Arg("command", CMD_EDIT)>>)],
     [raises |-> FALSE, text |-> Answer(THOUGHT, RUN_BASH_CMD, <<Arg("command", CMD_SLEEP)>>)]}

NextLive ==
    \/ \E tools \in ToolSets : AddFunctions(tools)
    \/ \E task \in Tasks, m \in Budgets : Run(task, m)
    \/ \E backend \in LiveBackends : Step(backend)
    \/ Exhausted

SpecLive ==
    /\ Init
    /\ [][NextLive]_vars
    /\ WF_vars(\E backend \in LiveBackends : Step(backend))
    /\ WF_vars(Exhausted)

\* ------------------------------------------------------------------------
\* The message tree under direct calls: add_message and
\* add_instructions_and_backtrack are called on the agent before the run and
\* between its steps
\* ------------------------------------------------------------------------
Backtrack == \E instructions \in ApiInstructions, id \in -1..Len(id_to_message) :
                 AddInstructionsAndBacktrack(instructions, id)

NextStore ==
    \/ \E role \in ApiRoles, content \in ApiContents : ApiAddMessage(role, content)
    \/ Backtrack
    \/ \E task \in Tasks, m \in Budgets : Run(task, m)
    \/ \E backend \in StoreBackends : Step(backend)
    \/ Exhausted

SpecStore == Init /\ [][NextStore]_vars

\* ------------------------------------------------------------------------
\* Node contents: set_message_content is called on the agent before the run
\* and between its steps, and the backend calls finish or the backtrack tool
\* with the id of a node or with an id no node has
\* ------------------------------------------------------------------------
NO_NODE == <<"99">>

ContentBackends ==
    {[raises |-> FALSE, text |-> Answer(THOUGHT, FINISH, <<Arg("result", PAYLOAD)>>)],
     [raises |-> FALSE,
      text |-> Answer(THOUGHT, BACKTRACK,
                      <<Arg("instructions", <<"retry">>), Arg("at_message_id", <<"1">>)>>)],
     [raises |-> FALSE,
      text |-> Answer(THOUGHT, BACKTRACK,
                      <<Arg("instructions", <<"retry">>), Arg("at_message_id", NO_NODE)>>)]}

SetContent == \E id \in -1..Len(id_to_message), content \in ApiContents :
                  ApiSetMessageContent(id, content)

NextContent ==
    \/ SetContent
    \/ \E tools \in ToolSets : AddFunctions(tools)
    \/ \E task \in Tasks, m \in Budgets : Run(task, m)
    \/ \E backend \in ContentBackends : Step(backend)
    \/ Exhausted

SpecContent == Init /\ [][NextContent]_vars

\* ------------------------------------------------------------------------
\* Long runs: a freshly constructed agent run with a budget around the cap,
\* against a backend that fails or calls finish
\* ------------------------------------------------------------------------
NextBudget ==
    \/ \E task \in Tasks, m \in LongBudgets : Run(task, m)
    \/ \E backend \in BudgetBackends : Step(backend)
    \/ Exhausted

SpecBudget == Init /\ [][NextBudget]_vars

\* ------------------------------------------------------------------------
\* Runs of repeated failures: a freshly constructed agent against a backend
\* whose answer does not parse, names an unknown tool, or calls finish
\* ------------------------------------------------------------------------
FailingBackends ==
    {[raises |-> FALSE, text |-> <<"no", SP, "call">>],
     [raises |-> FALSE, text |-> Answer(THOUGHT, <<"frobnicate">>, <<>>)],
     [raises |-> FALSE, text |-> Answer(THOUGHT, FINISH, <<Arg("result", PAYLOAD)>>)]}

NextFailing ==
    \/ \E task \in Tasks, m \in 0..MaxRecoverySteps : Run(task, m)
    \/ \E backend \in FailingBackends : Step(backend)
    \/ Exhausted

SpecFailing == Init /\ [][NextFailing]_vars

\* ------------------------------------------------------------------------
\* The parser on its own: a call is written in the response format and the
\* text is given to ResponseParser.parse
\* ------------------------------------------------------------------------
SeqsUpTo(tokens, n) == UNION {[1..k -> tokens] : k \in 0..n}

ProseTokens == {"word", NL, BEGIN_CALL, END_CALL, ARG_SEP}
ValueTokens == {"v", NL, SP, BEGIN_CALL, END_CALL, ARG_SEP}
CALL_NAME == <<"show_file">>
SECOND_VALUE == <<"w", NL, "w">>

WellFormedArgs ==
    { <<>>,
      <<Arg("file_path", <<"a.py">>)>>,
      <<Arg("file_path", <<"a.py">>), Arg("content", <<"x", NL, SP, "y">>)>> }

\* prose with marker text in it, then one well-formed call
ResilienceCalls ==
    {[kind |-> "resilience", prose |-> prose, name |-> CALL_NAME, args |-> args] :
        prose \in SeqsUpTo(ProseTokens, MaxProse), args \in WellFormedArgs}

\* a call with arbitrary values, no prose
RoundTripCalls ==
    {[kind |-> "roundtrip", prose |-> <<>>, name |-> CALL_NAME, args |-> <<Arg("a", v)>>] :
        v \in SeqsUpTo(ValueTokens, MaxValue)}
    \cup
    {[kind |-> "roundtrip", prose |-> <<>>, name |-> CALL_NAME,
      args |-> <<Arg("a", v), Arg("b", SECOND_VALUE)>>] :
        v \in SeqsUpTo(ValueTokens, MaxValue)}
    \cup
    {[kind |-> "roundtrip", prose |-> <<>>, name |-> CALL_NAME,
      args |-> <<Arg("b", SECOND_VALUE), Arg("a", v)>>] :
        v \in SeqsUpTo(ValueTokens, MaxValue)}

\* a call with two or three argument segments, two of them named x
DuplicateValues == {<<>>, <<"v">>, <<"w">>, <<"v", NL, SP, "v">>}

DuplicateCalls ==
    {[kind |-> "duplicate", prose |-> <<>>, name |-> CALL_NAME, args |-> args] :
        args \in UNION {{ <<Arg("x", v1), Arg("x", v2)>>,
                          <<Arg("x", v1), Arg("y", SECOND_VALUE), Arg("x", v2)>>,
                          <<Arg("y", SECOND_VALUE), Arg("x", v1), Arg("x", v2)>> } :
                        v1 \in DuplicateValues, v2 \in DuplicateValues}}

\* what a backend goes on to emit after the end marker of its call
TRAILING == <<NL, "word">>

\* a non-empty text as the backend returns it: prose, a call in the response
\* format with its last newline, a call that stops at the end marker, or a
\* call followed by more text
RawTexts ==
    (SeqsUpTo(ProseTokens, MaxProse) \ {<<>>})
    \cup {ResponseFormat(<<>>, CALL_NAME, args) : args \in WellFormedArgs}
    \cup {Answer(<<>>, CALL_NAME, args) : args \in WellFormedArgs}
    \cup {Answer(<<>>, CALL_NAME, args) \o TRAILING : args \in WellFormedArgs}

BackendCalls ==
    {[kind |-> "backend", prose |-> text, name |-> <<>>, args |-> <<>>] : text \in RawTexts}

\* a text given to parse as it is
TextCalls ==
    {[kind |-> "text", prose |-> text, name |-> <<>>, args |-> <<>>] : text \in RawTexts}

\* a call whose function name or argument name may be blank
BlankNames == {<<>>, <<SP>>}

BlankCalls ==
    {[kind |-> "blank", prose |-> <<>>, name |-> name, args |-> args] :
        name \in {CALL_NAME} \cup BlankNames,
        args \in {<<>>} \cup
                 {<<(<<n, v>>)>> : n \in {<<"x">>} \cup BlankNames, v \in {<<>>, <<"v">>}} \cup
                 {<<Arg("a", <<"w">>), (<<n, v>>)>> :
                      n \in {<<"x">>} \cup BlankNames, v \in {<<>>, <<"v">>}}}

InitParse ==
    /\ InitAgent
    /\ p_call \in ResilienceCalls \cup RoundTripCalls \cup DuplicateCalls \cup BackendCalls
                 \cup TextCalls \cup BlankCalls
    /\ p_text = <<>>
    /\ p_result = NoParse
    /\ InitEnvIdle

\* OpenAIModel.generate on the text the backend returned
BackendAnswer ==
    /\ p_call.kind = "backend"
    /\ p_text = <<>>
    /\ p_text' = Generate(p_call.prose, END_CALL)
    /\ UNCHANGED <<agent_vars, p_call, p_result, env_vars>>

\* the text is handed to parse unchanged
GiveText ==
    /\ p_call.kind = "text"
    /\ p_text = <<>>
    /\ p_text' = p_call.prose
    /\ UNCHANGED <<agent_vars, p_call, p_result, env_vars>>

WriteCall ==
    /\ p_call # NoCall
    /\ p_call.kind \notin {"backend", "text"}
    /\ p_text = <<>>
    /\ p_text' = ResponseFormat(p_call.prose, p_call.name, p_call.args)
    /\ UNCHANGED <<agent_vars, p_call, p_result, env_vars>>

ParseCall ==
    /\ p_text # <<>>
    /\ p_result = NoParse
    /\ p_result' = Parse(p_text)
    /\ UNCHANGED <<agent_vars, p_call, p_text, env_vars>>

NextParse == BackendAnswer \/ GiveText \/ WriteCall \/ ParseCall

SpecParse == InitParse /\ [][NextParse]_vars

Parsed == p_result # NoParse

\* ------------------------------------------------------------------------
\* The sandbox tools of SWEEnvironment, called on one file of the working
\* tree.  CHECK and CROSS stand for the check mark and the cross the
\* messages begin with.
\* ------------------------------------------------------------------------
MaxLine == 4
MaxCount == 2
CHECK == "[v]"
CROSS == "[x]"
PY_SUFFIX == ".py"
BAD_SYNTAX == "?"

\* sep.join(pieces)
RECURSIVE Join(_, _)
Join(pieces, sep) ==
    IF pieces = <<>> THEN <<>>
    ELSE IF Len(pieces) = 1 THEN pieces[1]
    ELSE pieces[1] \o <<sep>> \o Join(Tail(pieces), sep)

\* int(value) of a decoded argument: the number, or NotAnInteger for ValueError
NotAnInteger == -99
IntOf(value) ==
    LET v == Strip(value)
        hits == {n \in (0 - MaxLine)..MaxLine : v = <<ToString(n)>>}
    IN  IF hits = {} THEN NotAnInteger ELSE CHOOSE n \in hits : TRUE

\* python3 -m py_compile on a file with this content exits with zero
CompilesOk(content) == BAD_SYNTAX \notin SeqToSet(content)

\* SWEEnvironment.check_syntax, when env.execute returns
CheckSyntax(file_path, content) ==
    IF CompilesOk(content)
    THEN <<CHECK>> \o file_path \o <<" has valid Python syntax">>
    ELSE <<CROSS, "Syntax error in ">> \o file_path

\* SWEEnvironment._append_syntax_warning_if_needed
AppendSyntaxWarningIfNeeded(file_path, content, base_message) ==
    IF EndsWith(file_path, PY_SUFFIX) /\ CheckSyntax(file_path, content)[1] = CROSS
    THEN base_message \o <<NL, NL, "Warning: syntax errors detected in ">> \o file_path
         \o <<":", NL>> \o CheckSyntax(file_path, content)
    ELSE base_message

\* lines[:from_line-1] + content_lines + lines[to_line:]
SpliceLinesOffByOne(lines, from_line, to_line, content_lines) ==
    SubSeq(lines, 1, from_line) \o content_lines \o SubSeq(lines, to_line + 1, Len(lines))

SpliceLines(lines, from_line, to_line, content_lines) ==
    SubSeq(lines, 1, from_line - 1) \o content_lines \o SubSeq(lines, to_line + 1, Len(lines))

\* SWEEnvironment.replace_in_file on a file with content file; piped says
\* whether the docker exec that pipes the new content into the container
\* exits with zero.  The value is the message returned and the file left.
ReplaceInFile(file_path, file, from_line, to_line, content, piped) ==
    LET lines == Split(file, NL)
        from == IntOf(from_line)
        to == IntOf(to_line)
    IN  IF from = NotAnInteger
        THEN [message |-> <<"Error: Invalid from_line. from_line=">> \o from_line, file |-> file]
        ELSE IF to = NotAnInteger
        THEN [message |-> <<"Error: Invalid to_line. to_line=">> \o to_line, file |-> file]
        ELSE IF from < 1 \/ to < 1 \/ from > to
        THEN [message |-> <<"Error: Invalid line numbers. from_line=", ToString(from),
                            ", to_line=", ToString(to)>>, file |-> file]
        ELSE IF to > Len(lines)
        THEN [message |-> <<"Error: to_line (", ToString(to), ") exceeds file length (",
                            ToString(Len(lines)), ")">>, file |-> file]
        ELSE LET content_lines == Split(content, NL)
                 new_content == Join(SpliceLines(lines, from, to, content_lines), NL)
             IN  IF ~piped
                 THEN [message |-> <<"Error in replace_in_file: ",
                                     "Failed to write file to container.">>,
                       file |-> file]
                 ELSE [message |->
                           AppendSyntaxWarningIfNeeded(file_path, new_content,
                               <<CHECK, "Successfully replaced lines ", ToString(from), "-",
                                 ToString(to), " in ">> \o file_path),
                       file |-> new_content]

\* SWEEnvironment.set_file_content
SetFileContent(file_path, file, content, piped) ==
    IF ~piped
    THEN [message |-> <<"Error in set_file_content: ", "Failed to write file to container.">>,
          file |-> file]
    ELSE [message |-> AppendSyntaxWarningIfNeeded(file_path, content,
                          <<"Successfully wrote to ">> \o file_path),
          file |-> content]

\* str.count(old): the occurrences of old in text that do not overlap
RECURSIVE CountText(_, _)
CountText(text, old) ==
    IF Len(text) < Len(old) THEN 0
    ELSE IF SubSeq(text, 1, Len(old)) = old
    THEN 1 + CountText(SubSeq(text, Len(old) + 1, Len(text)), old)
    ELSE CountText(Tail(text), old)

\* str.replace(old, new, count): a negative count replaces every occurrence
RECURSIVE ReplaceText(_, _, _, _)
ReplaceText(text, old, new, count) ==
    IF Len(text) < Len(old) \/ count = 0 THEN text
    ELSE IF SubSeq(text, 1, Len(old)) = old
    THEN new \o ReplaceText(SubSeq(text, Len(old) + 1, Len(text)), old, new,
                            IF count > 0 THEN count - 1 ELSE count)
    ELSE <<text[1]>> \o ReplaceText(Tail(text), old, new, count)

\* SWEEnvironment.find_and_replace_text
FindAndReplaceText(file_path, file, old_text, new_text, count, piped) ==
    LET n == IntOf(count)
        occurrences == CountText(file, old_text)
    IN  IF n = NotAnInteger
        THEN [message |-> <<"Error: Invalid count. count=">> \o count, file |-> file]
        ELSE IF occurrences = 0
        THEN [message |-> <<"Error: Text not found in ">> \o file_path, file |-> file]
        ELSE LET new_content == ReplaceText(file, old_text, new_text,
                                            IF n = -1 THEN -1 ELSE n)
                 replaced_count == IF n = -1 THEN occurrences ELSE Min(n, occurrences)
                 write_result == SetFileContent(file_path, file, new_content, piped)
             IN  [message |->
                      AppendSyntaxWarningIfNeeded(file_path, write_result.file,
                          <<CHECK, "Successfully replaced ", ToString(replaced_count),
                            " occurrence(s) in ">> \o file_path),
                  file |-> write_result.file]

\* SWEEnvironment.git_diff: changed says whether the working tree differs
\* from the index, raises whether env.execute raises (a timeout)
NO_CHANGES == "No changes yet. You have not modified any files."
DIFF_TEXT == <<"diff --git a/a.py b/a.py", NL, "+x">>

GitDiff(changed, raises) ==
    IF raises THEN <<"Error getting git diff: ", "timed out">>
    ELSE LET diff_output == Strip(IF changed THEN DIFF_TEXT \o <<NL>> ELSE <<>>)
         IN  IF diff_output = <<>> THEN <<NO_CHANGES>> ELSE diff_output

\* SWEEnvironment.check_syntax on a modified file f = [path, content, raises]:
\* when both of its commands raise the result is an error that begins with
\* the cross as well
CheckSyntaxOf(f) ==
    IF f.raises THEN <<CROSS, "Error checking syntax for ">> \o f.path
    ELSE CheckSyntax(f.path, f.content)

RECURSIVE SyntaxErrors(_)
SyntaxErrors(files) ==
    IF files = <<>> THEN <<>>
    ELSE LET syntax_result == CheckSyntaxOf(files[1])
         IN  (IF syntax_result[1] = CROSS
                 \/ "Syntax error in " \in SeqToSet(syntax_result)
              THEN files[1].path \o <<":", NL>> \o syntax_result \o <<NL, NL>>
              ELSE <<>>)
             \o SyntaxErrors(Tail(files))

\* SWEEnvironment.check_repo_syntax: files are the modified Python files, raises
\* says whether listing them raises
CheckRepoSyntax(files, raises) ==
    IF raises THEN <<"Error during repository syntax check: ", "timed out">>
    ELSE IF files = <<>> THEN <<"No Python files to check.">>
    ELSE IF SyntaxErrors(files) # <<>>
    THEN <<CROSS, "Syntax errors detected:", NL, NL>> \o SyntaxErrors(files)
    ELSE <<CHECK, "All checked Python files have valid syntax">>

CHECK_1_FAILED == "CHECK 1 FAILED: No code changes detected"
ALL_PASSED == "ALL CHECKS PASSED - Safe to call finish()"
NOT_PASSED == "VERIFICATION FAILED - DO NOT call finish() yet"

\* SWEEnvironment.verify_before_finish: the report
VerifyBeforeFinish(changed, diff_raises, files, names_raise) ==
    LET diff == GitDiff(changed, diff_raises)
    IN  IF diff = <<>> \/ Strip(diff) = <<>> \/ NO_CHANGES \in SeqToSet(diff)
        THEN <<CHECK_1_FAILED>>
        ELSE LET syntax_result == CheckRepoSyntax(files, names_raise)
                 all_checks_passed ==
                     ~(CROSS \in SeqToSet(syntax_result)
                       \/ "Syntax errors detected:" \in SeqToSet(syntax_result))
             IN  <<"CHECK 1 PASSED: Code changes detected", NL>>
                 \o (IF all_checks_passed
                     THEN <<"CHECK 2 PASSED: ">> \o syntax_result
                     ELSE <<"CHECK 2 FAILED: Syntax errors detected", NL>> \o syntax_result)
                 \o <<NL, "GIT DIFF PREVIEW (first 1000 chars):", NL>> \o diff
                 \o <<NL, IF all_checks_passed THEN ALL_PASSED ELSE NOT_PASSED>>

\* the modified Python files of a working tree (none when nothing changed),
\* and the calls of verify_before_finish on it
MaxFiles == 2

ModifiedFiles(tree) ==
    [i \in 1..Len(tree) |-> [path |-> <<ToString(i), PY_SUFFIX>>,
                             content |-> tree[i].content, raises |-> tree[i].raises]]

VerifyCalls ==
    {c \in {[tool |-> "verify_before_finish", changed |-> changed,
             diff_raises |-> diff_raises, files |-> ModifiedFiles(tree),
             names_raise |-> names_raise] :
               changed \in BOOLEAN, diff_raises \in BOOLEAN, names_raise \in BOOLEAN,
               tree \in SeqsUpTo([content : {<<"x">>, <<BAD_SYNTAX>>}, raises : BOOLEAN],
                                 MaxFiles)} :
        c.changed \/ c.files = <<>>}

CallVerifyBeforeFinish ==
    /\ e_call.tool = "verify_before_finish"
    /\ ~e_result.done
    /\ e_result' = [done |-> TRUE,
                    message |-> VerifyBeforeFinish(e_call.changed, e_call.diff_raises,
                                                   e_call.files, e_call.names_raise)]
    /\ UNCHANGED <<agent_vars, parser_vars, e_call>>

\* SWEEnvironment.generate_patch: output is what `git add -A && git diff
\* --cached` prints, raises whether env.execute raises
GeneratePatch(run_result, output, raises) ==
    IF raises THEN run_result \o <<NL, NL, "Error running git commands: ", "timed out">>
    ELSE IF Strip(output) # <<>> THEN Strip(output)
    ELSE run_result \o <<NL, NL, "No changes detected to generate a patch.">>

\* the parameters of ReactAgent.__init__, the keyword arguments
\* process_instance passes to it, and the attributes of the environment it
\* reads for them
InitParameters == {"name", "parser", "llm", "instance_id", "output_dir"}
InitKeywords == {"instance_id", "output_dir", "verify_code_quality_fn", "llm_as_judge_fn"}
KeywordSources == {"verify_before_finish", "llm_judge_validate_changes"}
EnvironmentTools ==
    {"run_bash_cmd", "show_file", "search_in_file", "search_in_directory", "list_files",
     "find_file", "replace_in_file", "replace_between", "insert_lines_at", "delete_lines",
     "git_diff", "generate_patch", "run_tests", "check_repo_syntax", "git_apply",
     "run_python_snippet", "detect_indentation", "list_modified_python_files",
     "find_and_replace_text", "count_lines", "verify_before_finish"}

\* run_agent.process_instance: env_ok says whether SWEEnvironment(instance)
\* returns, run what agent.run does (it returns output, or raises), diff and
\* diff_raises what the patch command does.  The value tells whether the
\* agent was constructed and run, the prediction, and how often the entry of
\* the instance was written to preds.json.
ProcessInstance(env_ok, run, diff, diff_raises) ==
    LET failed == [constructed |-> FALSE, ran |-> FALSE, result |-> <<>>, writes |-> 1]
    IN  IF ~env_ok THEN failed
        ELSE IF ~(KeywordSources \subseteq EnvironmentTools)
        THEN \* AttributeError while the arguments are evaluated
             failed
        ELSE IF ~(InitKeywords \subseteq InitParameters)
        THEN \* TypeError: unexpected keyword argument
             failed
        ELSE IF run.raises
        THEN [constructed |-> TRUE, ran |-> TRUE, result |-> <<>>, writes |-> 1]
        ELSE [constructed |-> TRUE, ran |-> TRUE,
              result |-> GeneratePatch(run.output, diff, diff_raises), writes |-> 1]

ProcessCalls ==
    {[tool |-> "process_instance", env_ok |-> env_ok, run |-> run, diff |-> diff,
      diff_raises |-> diff_raises] :
        env_ok \in BOOLEAN,
        run \in {[raises |-> TRUE, output |-> <<>>], [raises |-> FALSE, output |-> PAYLOAD]},
        diff \in {<<>>, DIFF_TEXT \o <<NL>>},
        diff_raises \in BOOLEAN}

CallProcessInstance ==
    /\ e_call.tool = "process_instance"
    /\ ~e_result.done
    /\ LET r == ProcessInstance(e_call.env_ok, e_call.run, e_call.diff, e_call.diff_raises)
       IN  e_result' = [done |-> TRUE, constructed |-> r.constructed, ran |-> r.ran,
                        result |-> r.result, writes |-> r.writes]
    /\ UNCHANGED <<agent_vars, parser_vars, e_call>>

\* the files of the working tree, the arguments as the parser decodes them
\* (texts), and whether the write into the container succeeds
FilePaths == {<<"a", ".txt">>, <<"a", PY_SUFFIX>>}
Files == {<<>>, <<"a">>, <<"a", NL, "b", NL>>, <<"a", NL, "a", NL, "b">>}
LineValues == {<<ToString(n)>> : n \in 0..MaxLine} \cup {<<"x">>, <<"1.5">>}

ReplaceCalls ==
    {[tool |-> "replace_in_file", file_path |-> file_path, file |-> file,
      from_line |-> from_line, to_line |-> to_line, content |-> content, piped |-> piped] :
        file_path \in FilePaths, file \in Files, from_line \in LineValues,
        to_line \in LineValues,
        content \in {<<>>, <<"x">>, <<"x", NL, "y">>, <<"x", NL>>, <<BAD_SYNTAX>>},
        piped \in BOOLEAN}

FindCalls ==
    {[tool |-> "find_and_replace_text", file_path |-> file_path, file |-> file,
      old_text |-> old_text, new_text |-> new_text, count |-> count, piped |-> piped] :
        file_path \in FilePaths, file \in Files,
        old_text \in {<<"a">>, <<"a", NL>>, <<"z">>},
        new_text \in {<<>>, <<"n">>, <<BAD_SYNTAX>>},
        count \in {<<ToString(n)>> : n \in -2..MaxCount} \cup {<<"x">>},
        piped \in BOOLEAN}

InitEnv ==
    /\ InitAgent
    /\ InitParserIdle
    /\ e_call \in ReplaceCalls \cup FindCalls \cup VerifyCalls \cup ProcessCalls
    /\ e_result = NoEnvResult

CallReplaceInFile ==
    /\ e_call.tool = "replace_in_file"
    /\ ~e_result.done
    /\ LET r == ReplaceInFile(e_call.file_path, e_call.file, e_call.from_line,
                              e_call.to_line, e_call.content, e_call.piped)
       IN  e_result' = [done |-> TRUE, message |-> r.message, file |-> r.file]
    /\ UNCHANGED <<agent_vars, parser_vars, e_call>>

CallFindAndReplaceText ==
    /\ e_call.tool = "find_and_replace_text"
    /\ ~e_result.done
    /\ LET r == FindAndReplaceText(e_call.file_path, e_call.file, e_call.old_text,
                                   e_call.new_text, e_call.count, e_call.piped)
       IN  e_result' = [done |-> TRUE, message |-> r.message, file |-> r.file]
    /\ UNCHANGED <<agent_vars, parser_vars, e_call>>

NextEnv ==
    \/ CallReplaceInFile
    \/ CallFindAndReplaceText
    \/ CallVerifyBeforeFinish
    \/ CallProcessInstance

SpecEnv == InitEnv /\ [][NextEnv]_vars

\* ------------------------------------------------------------------------
\* Notions the properties are stated with
\* ------------------------------------------------------------------------
Ids == 0..(Len(id_to_message) - 1)
Node(id) == id_to_message[id + 1]
Children(S, ids) == UNION {SeqToSet(Message(S, n).children) : n \in ids}

\* the nodes below the nodes of ids, found through the child lists
RECURSIVE Descendants(_, _)
Descendants(S, ids) ==
    IF ids = {} THEN {}
    ELSE Children(S, ids) \cup Descendants(S, Children(S, ids))

\* the depth of id, found by descending from the root through the child lists
RECURSIVE Level(_, _, _, _)
Level(S, frontier, id, k) ==
    IF id \in frontier THEN k
    ELSE IF frontier = {} THEN -1
    ELSE Level(S, Children(S, frontier), id, k + 1)

Depth(S, id) == Level(S, {S.root}, id, 0)

IsPrefix(a, b) == Len(a) <= Len(b) /\ SubSeq(b, 1, Len(a)) = a

FailureKinds == {"model_error", "parse_error", "not_found", "type_error", "exec_error"}
StepDone == last.op = "step"

\* the nodes the last operation created
Created == {id \in Ids : id >= last.nodes_before}

\* the answer of the last step as the parser reads it (the step's first node)
LastResponse == Node(last.nodes_before).content
LastParsed == Parse(LastResponse)

\* ------------------------------------------------------------------------
\* Properties
\* ------------------------------------------------------------------------

\* C1: a run ended by a finish call only if, at that call, the working tree
\* had a real change and the changed files passed the sanity check.
C1_FinishGated ==
    (pc = "returned" /\ StepDone /\ last.kind = "finish") => (has_changes /\ syntax_ok)

\* C2: run never raises; a failed step (the backend failed, the answer did not
\* parse, the tool is unknown, the call or the tool raised) leaves exactly one
\* new tool node, which carries an error text, and the loop goes on.
C2_FailureBecomesOneToolNode ==
    /\ pc # "raised"
    /\ (StepDone /\ last.kind \in FailureKinds) =>
          /\ pc = "running"
          /\ Cardinality({id \in Created : Node(id).role = "tool"}) = 1
          /\ Node(Len(id_to_message) - 1).role = "tool"
          /\ IsErrorText(Node(Len(id_to_message) - 1).content)
          /\ last.created = IF last.kind = "model_error" THEN 1 ELSE 2
          /\ \A id \in Created : Node(id).role \in {"assistant", "tool"}

C2_Witness ==
    StepDone /\ last.kind = "exec_error" /\ pc = "running" /\ last.tool_ran

\* C3: run calls the model at most min(m, 100) times, and a run that no
\* finish call ended made exactly min(m, 100) calls and returns the
\* exhaustion text with N = min(m, 100).
C3_BudgetClamped ==
    /\ pc # "new" => llm_calls <= Min(requested, 100)
    /\ (pc = "returned" /\ last.op = "exhausted") =>
          /\ llm_calls = Min(requested, 100)
          /\ result = <<"Agent reached maximum steps (", ToString(Min(requested, 100)),
                        ") without completing the task.">>

C3_Witness ==
    pc = "returned" /\ last.op = "exhausted" /\ requested > 100 /\ llm_calls = 100

\* C4: exactly one node has no parent, it is the root, and the parent of
\* every other node is an existing node with a smaller id.
C4_TreeInvariant ==
    /\ {id \in Ids : Node(id).parent = NoneId} = {root_message_id}
    /\ \A id \in Ids \ {root_message_id} :
          Node(id).parent \in Ids /\ Node(id).parent < id

C4_Witness ==
    /\ last.op = "add_message"
    /\ \E id \in Ids : Node(id).parent # NoneId /\ Node(id).parent < id - 1

\* C5: when a node Y is created after the pointer was moved to X, the path
\* from the root to Y is the path to X followed by Y, and holds no node that
\* was below X before Y was created.
C5_BacktrackPath ==
    [][ (last.op = "backtrack" /\ ~last.raised /\ Len(id_to_message') > Len(id_to_message)) =>
            LET X == current_message_id
                Y == Len(id_to_message)
                path == PathFrom(Store', Y)
            IN  /\ path = PathFrom(Store, X) \o <<Y>>
                /\ SeqToSet(path) \cap Descendants(Store, {X}) = {} ]_vars

C5_Witness ==
    /\ last.created >= 1
    /\ LET Y == last.nodes_before
           X == Node(Y).parent
       IN  /\ X # Y - 1
           /\ Len(Node(X).children) >= 2
           /\ GetContextPath([Store EXCEPT !.cur = Y]) = GetContextPath([Store EXCEPT !.cur = X]) \o <<Y>>

\* C6: the path of get_context starts at the root, ends at the current
\* pointer, goes from each node to one of its children, and its length is
\* the depth of the current pointer plus one.
C6_PathFidelity ==
    LET path == GetContextPath(Store)
    IN  /\ Len(path) >= 1
        /\ path[1] = root_message_id
        /\ path[Len(path)] = current_message_id
        /\ \A i \in 1..(Len(path) - 1) :
              /\ Node(path[i + 1]).parent = path[i]
              /\ path[i + 1] \in SeqToSet(Node(path[i]).children)
        /\ Len(path) = Depth(Store, current_message_id) + 1

C6_Witness ==
    /\ last.op = "backtrack"
    /\ current_message_id < Len(id_to_message) - 1
    /\ Len(GetContextPath(Store)) >= 3
    /\ Len(GetContextPath(Store)) < Len(id_to_message)

\* what every operation keeps of the nodes it finds: none is removed, none
\* changes its id, role or parent, and child lists only grow at the end
Structure(msgs) ==
    [i \in 1..Len(msgs) |-> [unique_id |-> msgs[i].unique_id, role |-> msgs[i].role,
                             parent |-> msgs[i].parent, children |-> msgs[i].children]]

AppendOnly ==
    /\ Len(id_to_message') >= Len(id_to_message)
    /\ \A i \in 1..Len(id_to_message) :
          /\ id_to_message'[i].unique_id = id_to_message[i].unique_id
          /\ id_to_message'[i].unique_id = i - 1
          /\ id_to_message'[i].parent = id_to_message[i].parent
          /\ IsPrefix(id_to_message[i].children, id_to_message'[i].children)

\* C7 as stated: the store is append-only, and a backtrack changes nothing
\* but the current pointer.
C7_BacktrackOnlyPointer ==
    [][ /\ AppendOnly
        /\ last'.op = "backtrack" =>
              /\ id_to_message' = id_to_message
              /\ root_message_id' = root_message_id ]_vars

\* C7 amended: the store is append-only, and a backtrack changes nothing but
\* the current pointer and the content of the instructor node.
C7_AppendOnly ==
    [][ /\ AppendOnly
        /\ last'.op = "backtrack" =>
              /\ Structure(id_to_message') = Structure(id_to_message)
              /\ \A i \in 1..Len(id_to_message) :
                    i # instructions_message_id + 1 =>
                        id_to_message'[i] = id_to_message[i]
              /\ root_message_id' = root_message_id ]_vars

C7_Witness ==
    /\ last.op = "backtrack"
    /\ ~last.raised
    /\ current_message_id < Len(id_to_message) - 1
    /\ Len(id_to_message) > 3
    /\ Node(instructions_message_id).content # <<>>

\* C8: a response whose prose holds marker text and that ends with one
\* well-formed call parses to the name and the arguments of that call.
C8_LastCallWins ==
    (Parsed /\ p_call.kind = "resilience") =>
        /\ p_result.ok
        /\ p_result.name = p_call.name
        /\ p_result.arguments = p_call.args

C8_Witness ==
    /\ Parsed
    /\ p_call.kind = "resilience"
    /\ BEGIN_CALL \in SeqToSet(p_call.prose)
    /\ END_CALL \in SeqToSet(p_call.prose)
    /\ p_result.ok
    /\ Len(p_result.arguments) = 2

\* C9 as stated: writing a call in the response format and parsing the text
\* gives back the name and the argument map, whatever the values are.
C9_RoundTripAnyValue ==
    (Parsed /\ p_call.kind = "roundtrip") =>
        /\ p_result.ok
        /\ p_result.name = p_call.name
        /\ p_result.arguments = p_call.args

\* a value parse gives back: no white space at either end, no begin marker
\* and no argument marker in it
Plain(value) ==
    /\ Strip(value) = value
    /\ BEGIN_CALL \notin SeqToSet(value)
    /\ ARG_SEP \notin SeqToSet(value)

\* C9 amended: writing a call in the response format and parsing the text
\* gives back the name and the argument map, embedded newlines included,
\* when no value starts or ends with white space or holds the begin or the
\* argument marker.
C9_RoundTrip ==
    (Parsed /\ p_call.kind = "roundtrip"
            /\ \A i \in 1..Len(p_call.args) : Plain(p_call.args[i][2])) =>
        /\ p_result.ok
        /\ p_result.name = p_call.name
        /\ p_result.arguments = p_call.args

C9_Witness ==
    /\ Parsed
    /\ p_call.kind = "roundtrip"
    /\ Len(p_call.args) = 2
    /\ p_call.args[1][2] = <<"v", NL, "v">>
    /\ p_result.ok
    /\ p_result.arguments = p_call.args

\* the last step's answer calls a registered tool with every declared
\* parameter and one more argument
ExtraArgumentStep ==
    /\ StepDone
    /\ last.kind # "model_error"
    /\ LastParsed.ok
    /\ LastParsed.name \in SeqToSet(function_map)
    /\ LastParsed.name # FINISH
    /\ SeqToSet(Parameters(LastParsed.name)) \subseteq DictKeys(LastParsed.arguments)
    /\ DictKeys(LastParsed.arguments) \ SeqToSet(Parameters(LastParsed.name)) # {}

\* C10: a call with an undeclared extra argument runs the tool and the step
\* records the tool's result, not an error.
C10_ExtraArgumentDropped ==
    ExtraArgumentStep =>
        /\ last.tool_ran
        /\ last.kind = "result"
        /\ ~IsErrorText(Node(Len(id_to_message) - 1).content)

\* the parameters the last step's call lacks
MissingParameters ==
    SeqToSet(Parameters(LastParsed.name)) \ DictKeys(LastParsed.arguments)

\* the last step's answer calls a registered tool without one of its parameters
MissingArgumentStep ==
    /\ StepDone
    /\ last.kind # "model_error"
    /\ LastParsed.ok
    /\ LastParsed.name \in SeqToSet(function_map)
    /\ MissingParameters # {}

\* the parameter and argument names of the last step's call that the text holds
NamedIn(content) ==
    {w \in SeqToSet(Parameters(LastParsed.name)) \cup DictKeys(LastParsed.arguments) :
        w[1] \in SeqToSet(content)}

\* C11: a call that lacks a required parameter does not run the tool, the
\* step records one tool error naming exactly the missing parameters, and
\* the loop goes on (for finish too).
C11_MissingArgumentNamed ==
    MissingArgumentStep =>
        /\ ~last.tool_ran
        /\ pc = "running"
        /\ last.created = 2
        /\ Node(Len(id_to_message) - 1).role = "tool"
        /\ IsErrorText(Node(Len(id_to_message) - 1).content)
        /\ NamedIn(Node(Len(id_to_message) - 1).content) = MissingParameters

\* the last step's answer names a tool that is not registered
UnknownToolStep ==
    /\ StepDone
    /\ last.kind # "model_error"
    /\ LastParsed.ok
    /\ LastParsed.name \notin SeqToSet(function_map)

NotBlank(token) == token # SP

\* C12: an unknown tool name runs no tool and leaves exactly one tool node,
\* whose text reports the name and lists the registered names in order; the
\* loop goes on.
C12_UnknownToolReported ==
    UnknownToolStep =>
        LET content == Node(Len(id_to_message) - 1).content
            n == Len(LastParsed.name)
        IN  /\ ~last.tool_ran
            /\ pc = "running"
            /\ last.created = 2
            /\ Cardinality({id \in Created : Node(id).role = "tool"}) = 1
            /\ Node(Len(id_to_message) - 1).role = "tool"
            /\ Len(content) >= n + 2
            /\ content[1] = "Error: Function '"
            /\ SubSeq(content, 2, n + 1) = LastParsed.name
            /\ content[n + 2] = "' not found. Available functions: "
            /\ SelectSeq(SubSeq(content, n + 3, Len(content)), NotBlank)
                   = [i \in 1..Len(function_map) |-> function_map[i][1]]

C12_Witness ==
    /\ UnknownToolStep
    /\ Len(function_map) >= 2
    /\ last.kind = "not_found"
    /\ pc = "running"

\* the last step's answer did not parse
ParseErrorStep ==
    /\ StepDone
    /\ last.kind # "model_error"
    /\ ~LastParsed.ok

\* what a step whose model call returned leaves first, and what a parse
\* failure adds to it
AssistantThenParseError ==
    /\ (StepDone /\ last.kind # "model_error") =>
          /\ last.created >= 1
          /\ Node(last.nodes_before).role = "assistant"
          /\ \E t \in BackendTexts : LastResponse = Generate(t, END_CALL)
    /\ ParseErrorStep =>
          LET a == last.nodes_before
          IN  /\ last.kind = "parse_error"
              /\ ~last.tool_ran
              /\ last.created = 2
              /\ Node(a + 1).role = "tool"
              /\ Node(a + 1).parent = a
              /\ Node(a).children = <<a + 1>>
              /\ Node(a + 1).content = <<"Error parsing function call: ", LastParsed.error>>

\* C13: the model's text is recorded as an assistant node before it is
\* parsed; a parse failure adds one tool node with the parse error under
\* that assistant node and runs no tool, and the context of the next step
\* holds both nodes.
C13_ParseErrorRecorded ==
    /\ []AssistantThenParseError
    /\ [][ (ParseErrorStep /\ last'.op = "step") =>
              /\ last.nodes_before \in SeqToSet(last'.context)
              /\ last.nodes_before + 1 \in SeqToSet(last'.context) ]_vars

C13_Witness ==
    /\ StepDone
    /\ \E id \in SeqToSet(last.context) :
          /\ Node(id).role = "tool"
          /\ Node(id).content[1] = "Error parsing function call: "
          /\ Node(id).parent \in SeqToSet(last.context)
          /\ Node(Node(id).parent).role = "assistant"

CreatedWithRole(role) == Cardinality({id \in Created : Node(id).role = role})

InitialNodes ==
    /\ Len(id_to_message) >= 3
    /\ Node(0).role = "system"
    /\ Node(1).role = "user"
    /\ Node(2).role = "instructor"

\* C14 as stated: every turn creates exactly one assistant node and, unless
\* it ends the run by finish, exactly one tool node.
C14_OneAssistantPerTurn ==
    /\ InitialNodes
    /\ StepDone =>
          /\ CreatedWithRole("assistant") = 1
          /\ last.kind # "finish" => CreatedWithRole("tool") = 1
          /\ CreatedWithRole("assistant") + CreatedWithRole("tool") = last.created

\* C14 amended: a turn whose model call returns creates exactly one
\* assistant node and, unless it ends the run by finish, exactly one tool
\* node after it; a turn whose model call fails creates no assistant node
\* and exactly one tool node.
C14_TurnNodes ==
    /\ InitialNodes
    /\ (StepDone /\ last.kind # "model_error") =>
          /\ CreatedWithRole("assistant") = 1
          /\ Node(last.nodes_before).role = "assistant"
          /\ last.kind # "finish" => CreatedWithRole("tool") = 1
          /\ CreatedWithRole("assistant") + CreatedWithRole("tool") = last.created
    /\ (StepDone /\ last.kind = "model_error") =>
          /\ CreatedWithRole("assistant") = 0
          /\ CreatedWithRole("tool") = 1
          /\ last.created = 1

C14_Witness ==
    /\ StepDone
    /\ last.kind = "model_error"
    /\ step >= 2
    /\ \E id \in Ids : Node(id).role = "assistant"

\* ------------------------------------------------------------------------
\* Repeated failures
\* ------------------------------------------------------------------------
\* the failure kind an error node stands for, "" for any other node
KindOf(node) ==
    IF node.role # "tool" \/ node.content = <<>> THEN ""
    ELSE IF node.content[1] = "Error parsing function call: " THEN "parse_error"
    ELSE IF node.content[1] = "Error: Function '" THEN "not_found"
    ELSE IF node.content[1] = "Error calling " THEN "type_error"
    ELSE IF node.content[1] = "Error executing " THEN "exec_error"
    ELSE IF node.content[1] = "Unexpected error in step " THEN "model_error"
    ELSE ""

\* the kinds of the failures recorded in the nodes 0..n-1, oldest first
RECURSIVE FailureLog(_)
FailureLog(n) ==
    IF n = 0 THEN <<>>
    ELSE FailureLog(n - 1)
         \o (IF KindOf(Node(n - 1)) = "" THEN <<>> ELSE <<KindOf(Node(n - 1))>>)

LastEntries(log, n) == SubSeq(log, IF Len(log) > n THEN Len(log) - n + 1 ELSE 1, Len(log))

Occurrences(log, kind) == Cardinality({i \in 1..Len(log) : log[i] = kind})

\* some kind occurs at least 3 times among the 5 most recent entries
LoopCondition(log) ==
    \E kind \in FailureKinds : Occurrences(LastEntries(log, 5), kind) >= 3

\* the guidance nodes: instructor nodes other than the initial one
GuidanceNodes == {id \in Ids : id > instructions_message_id /\ Node(id).role = "instructor"}

FailedStep == StepDone /\ last.kind \in FailureKinds

\* no recovery was made before the last step: the log was never cleared and
\* the recovery counter is 0
NoEarlierRecovery == \A id \in GuidanceNodes : id >= last.nodes_before

\* C15: after a recorded failure a loop is declared (and, no recovery having
\* been made yet, acted on by a guidance node) exactly when some kind occurs
\* at least 3 times among the 5 most recent failures.
C15_LoopDeclared ==
    (FailedStep /\ NoEarlierRecovery) =>
        ((GuidanceNodes # {}) <=> LoopCondition(FailureLog(Len(id_to_message))))

\* C16: the failures A, A, B, A, A make the controller declare a loop, the
\* failures A, B, A, B, A do not.
C16_LoopSequences ==
    LET A == "parse_error"
        B == "not_found"
        log == FailureLog(Len(id_to_message))
    IN  /\ log = <<A, A, B, A, A>> => GuidanceNodes # {}
        /\ log = <<A, B, A, B, A>> => GuidanceNodes = {}

\* the nearest node at most hops parent links above id that is a tool node
\* without an error text, or the instructor node
RECURSIVE RecoveryTarget(_, _)
RecoveryTarget(id, hops) ==
    IF id = NoneId \/ hops < 0 THEN instructions_message_id
    ELSE IF Node(id).role = "tool" /\ KindOf(Node(id)) = "" THEN id
    ELSE RecoveryTarget(Node(id).parent, hops - 1)

\* C17: on the first declared loop the pointer moves to the nearest
\* non-error tool ancestor within 10 hops (or the instructor node) and a
\* guidance node is appended under it.
C17_RecoveryAction ==
    (FailedStep /\ NoEarlierRecovery /\ LoopCondition(FailureLog(Len(id_to_message)))) =>
        LET g == Len(id_to_message) - 1
            e == last.nodes_before + (IF last.kind = "model_error" THEN 0 ELSE 1)
        IN  /\ Node(g).role = "instructor"
            /\ g # e
            /\ Node(g).parent = RecoveryTarget(e, 10)
            /\ current_message_id = g

\* C19: OpenAIModel.generate appends the end marker to a non-empty backend
\* text exactly when the text does not already end with it; the result ends
\* with the marker, applying the rule again changes nothing, and parsing
\* the result never fails for a missing end marker.
C19_StopMarkerAppended ==
    (p_call.kind = "backend" /\ p_text # <<>>) =>
        LET raw == p_call.prose
        IN  /\ p_text = (IF EndsWith(raw, END_CALL) THEN raw ELSE Append(raw, END_CALL))
            /\ EndsWith(p_text, END_CALL)
            /\ Generate(p_text, END_CALL) = p_text
            /\ Parsed => (p_result.ok \/ p_result.error # "No END_CALL marker found in response")

C19_Witness ==
    /\ p_call.kind = "backend"
    /\ Parsed
    /\ ~EndsWith(p_call.prose, END_CALL)
    /\ END_CALL \notin SeqToSet(p_call.prose)
    /\ p_text = Append(p_call.prose, END_CALL)
    /\ ~p_result.ok

\* C20: a call with two argument segments named x parses without error to
\* an argument map with one entry for x, holding the value of the later
\* segment.
C20_DuplicateArgument ==
    (Parsed /\ p_call.kind = "duplicate") =>
        LET args == p_result.arguments
            n == Len(p_call.args)
        IN  /\ p_result.ok
            /\ Cardinality({i \in 1..Len(args) : args[i][1] = <<"x">>}) = 1
            /\ DictGet(args, <<"x">>) = p_call.args[n][2]
            /\ Len(args) = n - 1

C20_Witness ==
    /\ Parsed
    /\ p_call.kind = "duplicate"
    /\ Len(p_call.args) = 3
    /\ p_call.args[1][2] = <<"v">>
    /\ p_call.args[3][2] = <<"w">>
    /\ p_result.ok
    /\ DictGet(p_result.arguments, <<"x">>) = <<"w">>

\* the 0-based positions of a token in a text
Positions(text, tok) == {i \in 0..(Len(text) - 1) : text[i + 1] = tok}

Max(S) == CHOOSE i \in S : \A j \in S : j <= i

\* C21: parse fails when the text holds no end marker, and fails when no
\* begin marker stands before the last end marker, even if one stands after it.
C21_MissingMarkerFails ==
    (Parsed /\ p_call.kind = "text") =>
        LET ends == Positions(p_text, END_CALL)
            begins == Positions(p_text, BEGIN_CALL)
        IN  /\ ends = {} =>
                /\ ~p_result.ok
                /\ p_result.error = "No END_CALL marker found in response"
            /\ (ends # {} /\ \A b \in begins : b > Max(ends)) =>
                /\ ~p_result.ok
                /\ p_result.error = "No BEGIN_CALL marker found before END_CALL"

C21_Witness ==
    /\ Parsed
    /\ p_call.kind = "text"
    /\ p_text = <<END_CALL, BEGIN_CALL>>
    /\ ~p_result.ok
    /\ p_result.error = "No BEGIN_CALL marker found before END_CALL"

Blank(s) == \A i \in 1..Len(s) : s[i] \in Whitespace

\* C22: parse fails when the function name of the call is blank, and fails
\* when the name of one of its arguments is blank.
C22_BlankNameFails ==
    (Parsed /\ p_call.kind = "blank") =>
        /\ Blank(p_call.name) => ~p_result.ok
        /\ (\E i \in 1..Len(p_call.args) : Blank(p_call.args[i][1])) => ~p_result.ok

\* C23: add_instructions_and_backtrack with an id outside 0..(number of
\* nodes - 1) raises and leaves the current pointer where it was; with an id
\* in range it sets the current pointer to that id.
C23_PointerMove ==
    [][ \A instructions \in ApiInstructions, id \in -1..Len(id_to_message) :
            AddInstructionsAndBacktrack(instructions, id) =>
                IF id < 0 \/ id > Len(id_to_message) - 1
                THEN last'.raised /\ current_message_id' = current_message_id
                ELSE ~last'.raised /\ current_message_id' = id ]_vars

C23_Witness ==
    /\ last.op = "backtrack"
    /\ last.raised
    /\ Len(id_to_message) > 3
    /\ current_message_id = Len(id_to_message) - 1
    /\ Node(instructions_message_id).content # <<>>

\* the nodes whose content the step from this state to the next changes
ContentChanged ==
    {id \in Ids : id_to_message'[id + 1].content # id_to_message[id + 1].content}

\* C24: set_message_content with an id out of range raises and changes no
\* node; with an id in range it replaces the content of that node and nothing
\* else.  The run and its steps change the content of the user and the
\* instructor node only, never that of an assistant or a tool node.
C24_SetContent ==
    /\ [][ \A id \in -1..Len(id_to_message), content \in ApiContents :
               ApiSetMessageContent(id, content) =>
                   IF id < 0 \/ id > Len(id_to_message) - 1
                   THEN last'.raised /\ id_to_message' = id_to_message
                   ELSE /\ ~last'.raised
                        /\ Len(id_to_message') = Len(id_to_message)
                        /\ id_to_message'[id + 1].content = content
                        /\ Structure(id_to_message') = Structure(id_to_message)
                        /\ ContentChanged \subseteq {id} ]_vars
    /\ [][ last'.op \in {"run", "step"} =>
               /\ ContentChanged \subseteq {user_message_id, instructions_message_id}
               /\ \A id \in ContentChanged : Node(id).role \notin {"assistant", "tool"} ]_vars

C24_Witness ==
    /\ last.op = "set_content"
    /\ ~last.raised
    /\ \E id \in Ids : Node(id).role = "assistant" /\ Node(id).content \in ApiContents
    /\ Node(instructions_message_id).content = <<"retry">>

\* a step whose answer is a call of the registered backtrack tool with its
\* two arguments and nothing else
BacktrackToolStep ==
    /\ StepDone
    /\ last.kind # "model_error"
    /\ LastParsed.ok
    /\ LastParsed.name = BACKTRACK
    /\ BACKTRACK \in SeqToSet(function_map)
    /\ DictKeys(LastParsed.arguments) = SeqToSet(Parameters(BACKTRACK))

\* the node an at_message_id argument names, if any: ids are written in decimal
NamedNodes(value) == {id \in 0..last.nodes_before : value = <<ToString(id)>>}

\* C25: a step in which the backtrack tool is given the id of no node ends
\* the run with an error raised out of run, and records no tool error node.
C25_InvalidReferenceFatal ==
    (BacktrackToolStep /\ NamedNodes(DictGet(LastParsed.arguments, <<"at_message_id">>)) = {}) =>
        /\ pc = "raised"
        /\ \A id \in Created : Node(id).role # "tool"

\* C29: a step in which the registered backtrack tool is called with
\* instructions and the id of an existing node leaves the instructor node
\* holding the instructions, attaches the tool's result node under the named
\* node and makes the next context the path through the named node.
C29_BacktrackTool ==
    BacktrackToolStep =>
        \A X \in NamedNodes(DictGet(LastParsed.arguments, <<"at_message_id">>)) :
            LET Y == Len(id_to_message) - 1
            IN  /\ Node(instructions_message_id).content
                       = DictGet(LastParsed.arguments, <<"instructions">>)
                /\ Node(Y).role = "tool"
                /\ ~IsErrorText(Node(Y).content)
                /\ Node(Y).parent = X
                /\ current_message_id = Y
                /\ GetContextPath(Store) = PathFrom(Store, X) \o <<Y>>

\* C26: a step whose model call fails records exactly one node, a tool node
\* with the error, and runs no tool; every model call is made by a step of
\* its own, which uses up one unit of the step budget.
C26_ModelErrorEndsStep ==
    /\ [](( StepDone /\ last.kind = "model_error") =>
              /\ last.created = 1
              /\ Node(last.nodes_before).role = "tool"
              /\ Node(last.nodes_before).content[1] = "Unexpected error in step "
              /\ ~last.tool_ran)
    /\ [](llm_calls = step /\ (pc # "new" => step <= max_steps))
    /\ [][ last'.op = "step" => (llm_calls' = llm_calls + 1 /\ step' = step + 1) ]_vars

C26_Witness ==
    /\ StepDone
    /\ last.kind = "model_error"
    /\ pc = "running"
    /\ step >= 2
    /\ Node(last.nodes_before - 1).role = "tool"
    /\ Node(last.nodes_before - 1).content[1] = "Unexpected error in step "

\* the run returned what the finish call was given
Done ==
    /\ pc = "returned"
    /\ StepDone
    /\ last.kind = "finish"
    /\ result = DictGet(LastParsed.arguments, <<"result">>)

\* the run returned the exhaustion string
ExhaustedOutcome ==
    /\ pc = "returned"
    /\ last.op = "exhausted"
    /\ result = ExhaustedMessage(max_steps)

\* C27: every run returns, either the payload of a finish call or the
\* exhaustion string; no exception leaves run, and nothing is executed after
\* the return.
C27_Terminates ==
    /\ (pc = "running") ~> (pc = "returned")
    /\ [](pc # "raised")
    /\ [](pc = "returned" => ((Done \/ ExhaustedOutcome) /\ ~(Done /\ ExhaustedOutcome)))
    /\ [][ pc # "returned" ]_vars

C27_Witness ==
    /\ ExhaustedOutcome
    /\ max_steps >= 2
    /\ step = max_steps
    /\ \E id \in Ids : Node(id).role = "tool" /\ IsErrorText(Node(id).content)

Increasing(q) == \A i \in 1..(Len(q) - 1) : q[i] < q[i + 1]

\* C28: each step first writes to the trajectory the nodes created since the
\* last write, in id order: no node is written twice, after the write every
\* node created so far has been written, and last_printed_message_id never
\* decreases.
C28_SideChannel ==
    /\ [](Increasing(trajectory))
    /\ [][ last'.op = "step" =>
               /\ trajectory' = Range(0, Len(id_to_message))
               /\ 0..current_message_id \subseteq SeqToSet(trajectory') ]_vars
    /\ [][ last_printed_message_id' >= last_printed_message_id ]_vars

\* a step whose answer is a call of the registered run_bash_cmd with its
\* command and nothing else
RunBashStep ==
    /\ StepDone
    /\ last.kind # "model_error"
    /\ LastParsed.ok
    /\ LastParsed.name = RUN_BASH_CMD
    /\ RUN_BASH_CMD \in SeqToSet(function_map)
    /\ DictKeys(LastParsed.arguments) = {<<"command">>}

\* C30: run_bash_cmd returns the output of a command that exits with code
\* zero, and raises for a command that exits with another code or times out,
\* so that the step records an execution error for it.
C30_RunBashCmd ==
    RunBashStep =>
        LET command == DictGet(LastParsed.arguments, <<"command">>)
            node == Node(Len(id_to_message) - 1)
        IN  IF ExitCode(command) = 0 /\ ~TimesOut(command)
            THEN /\ last.kind = "result"
                 /\ ~IsErrorText(node.content)
            ELSE /\ last.kind = "exec_error"
                 /\ node.content[1] = "Error executing "

\* the names that follow the label of a tool description in a rendered text,
\* in the order of the text
RECURSIVE ListedTools(_)
ListedTools(text) ==
    IF text = <<>> THEN <<>>
    ELSE IF text[1] = FUNCTION_LABEL /\ Len(text) > 1
    THEN <<(<<text[2]>>)>> \o ListedTools(Tail(text))
    ELSE ListedTools(Tail(text))

\* the loop of run is about to build a context and send it to the model
ContextDue == pc = "running" /\ step < max_steps

\* C31: the system node rendered in a context lists exactly the tools that
\* are registered when the context is built, in registration order, also the
\* tools registered after the system node was created, and building a
\* context leaves the stored content of the system node as it was.
C31_ToolsListed ==
    /\ [](ContextDue =>
            /\ IsPrefix(MessageIdToContext(Store, function_map, root_message_id),
                        GetContext(Store, function_map))
            /\ ListedTools(MessageIdToContext(Store, function_map, root_message_id))
                   = function_map)
    /\ [][ last'.op = "step" =>
              Node(root_message_id)'.content = Node(root_message_id).content ]_vars

\* a context is built with tools that were registered after construction
C31_Witness ==
    /\ StepDone
    /\ Len(function_map) = 3
    /\ function_map[1] = FINISH
    /\ ListedTools(GetContext(Store, function_map)) = function_map

\* a step whose dispatched tool call raised, at binding or in the tool
ToolRaisedStep == StepDone /\ last.kind \in {"type_error", "exec_error"}

\* C32: when a dispatched tool raises, the error node is tagged as an
\* argument error exactly when the supplied arguments did not fit the tool's
\* signature, and as an execution error when the tool was invoked with
\* acceptable arguments and raised while it ran, whatever the exception type.
C32_ErrorKinds ==
    ToolRaisedStep =>
        LET node == Node(Len(id_to_message) - 1)
            mismatch == BindError(LastParsed.name, LastParsed.arguments) # <<>>
        IN  /\ node.content[1] = "Error calling " <=> mismatch
            /\ node.content[1] = "Error executing " <=> (~mismatch /\ last.tool_ran)

\* C37: after any sequence of steps and backtracks, every context that is
\* built and sent to the model begins with the system node and contains the
\* user node and the instructor node, in that order.
C37_ContextAnchors ==
    ContextDue =>
        LET path == GetContextPath(Store)
        IN  /\ path # <<>>
            /\ path[1] = system_message_id
            /\ IsPrefix(MessageIdToContext(Store, function_map, system_message_id),
                        GetContext(Store, function_map))
            /\ \E i, j \in 1..Len(path) :
                   /\ i < j
                   /\ path[i] = user_message_id
                   /\ path[j] = instructions_message_id

\* no backtrack has taken the pointer above the instructor node: the pointer
\* is at or below it and every later node was attached at or below it
BelowInstructor ==
    /\ current_message_id >= instructions_message_id
    /\ \A id \in Ids : id > instructions_message_id =>
                           Node(id).parent >= instructions_message_id

\* C37 (amended): every context that is built and sent to the model begins
\* with the system node; it contains the user node and the instructor node,
\* in that order, as long as no backtrack has moved the pointer to the
\* system node or to the user node.
C37_AnchorsBelowInstructor ==
    ContextDue =>
        LET path == GetContextPath(Store)
        IN  /\ path # <<>>
            /\ path[1] = system_message_id
            /\ IsPrefix(MessageIdToContext(Store, function_map, system_message_id),
                        GetContext(Store, function_map))
            /\ BelowInstructor =>
                   \E i, j \in 1..Len(path) :
                       /\ i < j
                       /\ path[i] = user_message_id
                       /\ path[j] = instructions_message_id

\* a context is due after a step and a backtrack to the assistant node of
\* that step, which lies below the instructor node
C37_Witness ==
    /\ ContextDue
    /\ BelowInstructor
    /\ last.op = "backtrack"
    /\ ~last.raised
    /\ current_message_id > instructions_message_id
    /\ current_message_id < Len(id_to_message) - 1

\* C38: a call of add_instructions_and_backtrack that fails leaves the whole
\* store as it was: the current pointer, the nodes, and the content of every
\* node, the instructor node included.
C38_FailedBacktrackFrame ==
    [][ \A instructions \in ApiInstructions, id \in -1..Len(id_to_message) :
            (AddInstructionsAndBacktrack(instructions, id) /\ last'.raised) =>
                /\ current_message_id' = current_message_id
                /\ root_message_id' = root_message_id
                /\ id_to_message' = id_to_message ]_vars

\* C39: in the pipeline of a step, generate and then parse, text that the
\* backend emits after the end marker of a well-formed call has no effect on
\* the call that is dispatched: the decoded name and argument map are those
\* decoded for the same output without the trailing text.
C39_TrailingTextIgnored ==
    (Parsed /\ p_call.kind = "backend") =>
        \A args \in WellFormedArgs, trailing \in {<<NL>>, TRAILING} :
            p_call.prose = Answer(<<>>, CALL_NAME, args) \o trailing =>
                LET bare == Parse(Generate(Answer(<<>>, CALL_NAME, args), END_CALL))
                IN  /\ bare.ok
                    /\ p_result.ok
                    /\ p_result.name = bare.name
                    /\ p_result.arguments = bare.arguments

\* C40: when run has returned, by finish or by exhaustion, every node that
\* was created during the run, the assistant and tool nodes of the last
\* executed step included, has been written to the trajectory file.
C40_AllEmittedAtReturn ==
    pc = "returned" =>
        \A id \in Ids : id > instructions_message_id => id \in SeqToSet(trajectory)

\* a call of a sandbox tool has returned
Replaced == e_call.tool = "replace_in_file" /\ e_result.done
Succeeded == e_result.message[1] = CHECK

\* C36: a line is a piece of the text between newlines.  For
\* 1 <= from_line <= to_line <= number of lines, replace_in_file writes a
\* file whose lines are the original lines before from_line, then the lines
\* of content, then the original lines after to_line (and writes nothing and
\* returns an error when the write into the container fails); for a line
\* number that is no integer or is out of range it returns an error message
\* and writes nothing.
C36_ReplaceLines ==
    Replaced =>
        LET old == Split(e_call.file, NL)
            new == Split(e_result.file, NL)
            c == Split(e_call.content, NL)
            from == IntOf(e_call.from_line)
            to == IntOf(e_call.to_line)
            removed == to - from + 1
        IN  IF /\ from # NotAnInteger
               /\ to # NotAnInteger
               /\ 1 <= from
               /\ from <= to
               /\ to <= Len(old)
            THEN IF e_call.piped
                 THEN /\ Succeeded
                      /\ Len(new) = Len(old) - removed + Len(c)
                      /\ \A i \in 1..(from - 1) : new[i] = old[i]
                      /\ \A k \in 1..Len(c) : new[from - 1 + k] = c[k]
                      /\ \A i \in (to + 1)..Len(old) : new[i - removed + Len(c)] = old[i]
                 ELSE ~Succeeded /\ e_result.file = e_call.file
            ELSE /\ ~Succeeded
                 /\ e_result.message[1] \in {"Error: Invalid from_line. from_line=",
                                             "Error: Invalid to_line. to_line=",
                                             "Error: Invalid line numbers. from_line=",
                                             "Error: to_line ("}
                 /\ e_result.file = e_call.file

\* lines 2 to 3 of a file of three lines are replaced by two lines
C36_Witness ==
    /\ Replaced
    /\ Succeeded
    /\ e_call.file = <<"a", NL, "a", NL, "b">>
    /\ IntOf(e_call.from_line) = 2
    /\ IntOf(e_call.to_line) = 3
    /\ e_call.content = <<"x", NL, "y">>
    /\ e_result.file = <<"a", NL, "x", NL, "y">>

Found == e_call.tool = "find_and_replace_text" /\ e_result.done

\* C35: find_and_replace_text reports success only when the replaced content
\* was written; the count it reports is the number of occurrences that were
\* really replaced, at most count, and all of them when count is -1; when
\* the text is absent or the write fails it returns an error and the file is
\* as before.
C35_ReplaceReported ==
    Found =>
        LET before == CountText(e_call.file, e_call.old_text)
            after == CountText(e_result.file, e_call.old_text)
            n == IntOf(e_call.count)
        IN  /\ Succeeded =>
                /\ e_call.piped
                /\ e_result.file = ReplaceText(e_call.file, e_call.old_text,
                                               e_call.new_text, n)
                /\ e_result.message[3] = ToString(before - after)
                /\ IF n = -1 THEN after = 0 ELSE before - after <= n
            /\ (before = 0 \/ ~e_call.piped) =>
                /\ ~Succeeded
                /\ e_result.file = e_call.file

Verified == e_call.tool = "verify_before_finish" /\ e_result.done
Passed == ALL_PASSED \in SeqToSet(e_result.message)

\* C34: verify_before_finish reports that all checks passed only if the
\* working tree has changes and no modified Python file has a syntax error;
\* when there is no change it reports that check 1 failed and never the
\* pass verdict; an error while the diff is obtained or the syntax is
\* checked never yields the pass verdict.
C34_VerdictSound ==
    Verified =>
        LET files == e_call.files
            failed == e_call.diff_raises \/ e_call.names_raise
                      \/ \E i \in 1..Len(files) : files[i].raises
        IN  /\ Passed =>
                /\ e_call.changed
                /\ \A i \in 1..Len(files) : CompilesOk(files[i].content)
            /\ ~e_call.changed =>
                /\ CHECK_1_FAILED \in SeqToSet(e_result.message)
                /\ ~Passed
            /\ failed => ~Passed

Processed == e_call.tool = "process_instance" /\ e_result.done

\* C33: for every instance whose environment initialises, process_instance
\* constructs the agent, runs it on the problem statement, and records as
\* the prediction the patch generated after agent.run returned; the entry of
\* the instance is written exactly once, also when the run raises.
C33_InstanceProcessed ==
    Processed =>
        /\ e_result.writes = 1
        /\ e_call.env_ok =>
              /\ e_result.constructed
              /\ e_result.ran
              /\ ~e_call.run.raises =>
                    e_result.result = GeneratePatch(e_call.run.output, e_call.diff,
                                                    e_call.diff_raises)

====
